---- MODULE Spec2Model ----
(***************************************************************************)
(* Part I, ApiScenarioRunner (src/unnamed/part_000, lines 75-287): the     *)
(* runtime scope registry, scope provisioning and cleanup, and             *)
(* executeScenario.  Part II, ApiScenarioLoader (lines 346-1084): load()   *)
(* and the compilation of raw steps into a ScenarioDefinition.             *)
(*                                                                         *)
(* One action is one run of the code from a resumption to its next         *)
(* suspension point.  The suspension points are the client operations:     *)
(* prepareScenario, createResourceGroup, sendRestCallRequest /             *)
(* sendArmTemplateDeployment (a step dispatch), deleteResourceGroup, and   *)
(* the await of the memoized provisioning promise.                         *)
(***************************************************************************)
EXTENDS Integers, Sequences, FiniteSets, TLC

\* Bounds of the model.
MaxCalls == 2       \* executeScenario calls made on the runner
MaxSteps == 2       \* scenario.steps.length is in 0..MaxSteps
MaxPrepare == 2     \* scenarioDef.prepareSteps.length is in 0..MaxPrepare
MaxCleanUp == 2     \* scenarioDef.cleanUpSteps.length is in 0..MaxCleanUp

Calls == 1..MaxCalls

\* ScenarioDefinition["scope"], apiScenarioTypes.ts line 309.
ScopeTypes == {"ResourceGroup", "Subscription", "Tenant", "None"}

\* Scope names: "_defaultScope", and "_randomScope_<k>" for the k-th random string.
DefaultScope == 0
ScopeNames == 0..MaxCalls

\* What executeStep does with one step, lines 192-215:
\*   "resolveFail": stepEnv.resolve() throws, before the try block (lines 193-199);
\*   "buildFail":   the request cannot be built, inside the try block and before the
\*                  client is called (lines 230-232, 252, 268-269);
\*   "sent":        the client operation is issued and awaited.
StepOutcomes == {"resolveFail", "buildFail", "sent"}

VARIABLES
  def,            \* the compiled ScenarioDefinition the scenarios belong to (scenario._scenarioDef)
  envOk,          \* the scope environment resolves subscriptionId, resourceGroupName, location to strings
  skipCleanUp,    \* this.skipCleanUp
  overlap,        \* the caller starts executeScenario while an earlier call is still in flight
  scopeTracking,  \* this.scopeTracking: scope name -> Scope object (0: undefined)
  scopes,         \* the Scope objects built so far, by object identity
  randCount,      \* random strings drawn by prepareScope
  call,           \* the executeScenario calls: position, scenario, pending error, what each issued
  pending,        \* client operations issued and not yet settled
  ld,             \* the ApiScenarioLoader: its indexes, and the load() in progress
  ex              \* one compiled step and the environment it is executed in, in detail

vars == <<def, envOk, skipCleanUp, overlap, scopeTracking, scopes, randCount, call, pending, ld, ex>>

----------------------------------------------------------------------------
\* Errors.  stepName: wrapped by executeStep's catch (lines 210-214);
\* scenarioName: wrapped by executeScenario's catch (lines 183-184).

NoErr == [src |-> "none", idx |-> 0, stepName |-> FALSE, scenarioName |-> FALSE]

Err(src, i) == [src |-> src, idx |-> i, stepName |-> FALSE, scenarioName |-> FALSE]

\* The error executeStep throws for step i of a list: a failure inside its try block
\* (a failed request build, a rejected client operation) carries the step's name,
\* a failure of stepEnv.resolve() does not.
executeStepError(src, i, o) == [Err(src, i) EXCEPT !.stepName = (o # "resolveFail")]

\* The catch clause of executeScenario.
wrapScenario(e) == [e EXCEPT !.scenarioName = TRUE]

\* A client operation in flight.
Op(kind, c, o, i, env) == [kind |-> kind, call |-> c, scope |-> o, idx |-> i, env |-> env]

IdleCall ==
  [pc |-> "idle", shareScope |-> FALSE, scopeName |-> 0, scope |-> 0,
   idx |-> 0, err |-> NoErr, result |-> NoErr,
   hookReq |-> 0, stepLog |-> <<>>, cleanLog |-> <<>>, delReq |-> 0,
   ranBody |-> FALSE, enteredTry |-> FALSE, failedAt |-> 0,
   finallySkip |-> "unread", cleanErr |-> NoErr, deleteRequested |-> FALSE]

Settled(cr) == cr.pc \in {"resolved", "rejected", "settled"}

Active(cr) == cr.pc # "idle" /\ ~Settled(cr)

\* The promise executeScenario returned settles: rejected with e, or resolved.
settle(cr, e) ==
  [cr EXCEPT !.pc = IF e = NoErr THEN "resolved" ELSE "rejected", !.result = e, !.idx = 0]

\* What the model keeps of a settled call once the caller has gone on to the next
\* call: the scope it resolved to and, when later calls resolve to that scope too,
\* whether it requested deleteResourceGroup for the scope's container.  The rest of
\* the record of what it issued is dropped.
forget(cr) ==
  IF Settled(cr)
  THEN [IdleCall EXCEPT !.pc = "settled", !.shareScope = cr.shareScope,
                        !.scopeName = cr.scopeName, !.scope = cr.scope,
                        !.deleteRequested = cr.shareScope /\ cr.deleteRequested]
  ELSE cr

\* The loader is not part of a run: the runner is handed compiled scenarios.
NotLoaded == [pc |-> "notLoaded"]

\* What a step does is a StepOutcomes value in a run: its request is not built here.
NotExecuting == [pc |-> "notExecuting"]

----------------------------------------------------------------------------
InitRunner ==
  /\ def \in [scope : ScopeTypes, nPrepare : 0..MaxPrepare, nCleanUp : 0..MaxCleanUp]
  \* Only a ResourceGroup scope reads the three variables.
  /\ envOk \in (IF def.scope = "ResourceGroup" THEN BOOLEAN ELSE {TRUE})
  /\ skipCleanUp \in BOOLEAN
  /\ scopeTracking = [n \in ScopeNames |-> 0]
  /\ scopes = <<>>
  /\ randCount = 0
  /\ call = [c \in Calls |-> IdleCall]
  /\ pending = {}
  /\ ld = NotLoaded
  /\ ex = NotExecuting

\* The caller awaits each executeScenario call before it makes the next.
Init == InitRunner /\ overlap = FALSE

----------------------------------------------------------------------------
\* prepareScope, lines 110-146.

\* getRandomString(): a string not returned before.
getRandomString == randCount + 1

\* Line 111.
scopeNameOf(shareScope) == IF shareScope THEN DefaultScope ELSE getRandomString

\* Lines 122-127: the Scope object built from the definition.  provisioned is the
\* field doProvisionScope memoizes in; the remaining fields record what the
\* provisioning routine did on this object.
newScope ==
  [type |-> def.scope, nPrepare |-> def.nPrepare, nCleanUp |-> def.nCleanUp,
   provisioned |-> "undefined", provErr |-> NoErr,
   invocations |-> 0, bodyRuns |-> 0, createReq |-> 0, created |-> FALSE,
   prepLog |-> <<>>, prepDone |-> 0]

\* prepareScope without the lookup of lines 112-113: a Scope object is built on every call.
prepareScopeNoLookup(shareScope) ==
  LET name == scopeNameOf(shareScope)
      rand == IF shareScope THEN randCount ELSE randCount + 1
      obj == Len(scopes) + 1
  IN  IF def.scope = "None"
      THEN [thrown |-> TRUE, name |-> name, scope |-> 0, built |-> FALSE,
            tracking |-> scopeTracking, objects |-> scopes, rand |-> rand]
      ELSE [thrown |-> FALSE, name |-> name, scope |-> obj, built |-> TRUE,
            tracking |-> [scopeTracking EXCEPT ![name] = obj],
            objects |-> Append(scopes, newScope), rand |-> rand]

\* The scope a scenario runs in: the registered one, or a new one, which is
\* registered unless its kind is None (lines 129-131 throw before line 142).
prepareScope(shareScope) ==
  LET name == scopeNameOf(shareScope)
      rand == IF shareScope THEN randCount ELSE randCount + 1
      obj == Len(scopes) + 1
  IN  IF scopeTracking[name] # 0
      THEN [thrown |-> FALSE, name |-> name, scope |-> scopeTracking[name], built |-> FALSE,
            tracking |-> scopeTracking, objects |-> scopes, rand |-> rand]
      ELSE IF def.scope = "None"
      THEN [thrown |-> TRUE, name |-> name, scope |-> 0, built |-> FALSE,
            tracking |-> scopeTracking, objects |-> scopes, rand |-> rand]
      ELSE [thrown |-> FALSE, name |-> name, scope |-> obj, built |-> TRUE,
            tracking |-> [scopeTracking EXCEPT ![name] = obj],
            objects |-> Append(scopes, newScope), rand |-> rand]

\* A scope registered under a random name is resolved by no later call.  Once its
\* call has settled and the caller has gone on, the model keeps the object and its
\* registry entry and drops the record of what its provisioning did.
forgetScopes(objects, tracking, keep) ==
  [o \in DOMAIN objects |->
     IF o = tracking[DefaultScope] \/ o = keep
          \/ \E d \in Calls : Active(call[d]) /\ call[d].scope = o
     THEN objects[o]
     ELSE [newScope EXCEPT !.provisioned = "dropped"]]

----------------------------------------------------------------------------
\* doProvisionScope, lines 87-99.  Each operator gives the Scope object after the
\* code has run to its next suspension point, and the client operations issued.

\* The loop of lines 95-98 from prepare step i; o is what executeStep does with it.
runPrepareSteps(sr, obj, c, i, o) ==
  IF i <= sr.nPrepare
  THEN IF o = "sent"
       THEN [sr |-> [sr EXCEPT !.provisioned = "pending", !.prepLog = Append(@, i)],
             ops |-> {Op("prepareStep", c, obj, i, "scope")}]
       ELSE [sr |-> [sr EXCEPT !.provisioned = "rejected",
                               !.provErr = executeStepError("prepareStep", i, o)],
             ops |-> {}]
  ELSE [sr |-> [sr EXCEPT !.provisioned = "resolved"], ops |-> {}]

\* The builder with the await of line 89 missing: the first prepare step is started
\* while createResourceGroup is outstanding.
provisionBodyNoAwait(sr, obj, c, o) ==
  IF sr.type = "ResourceGroup" /\ envOk
  THEN LET r == runPrepareSteps([sr EXCEPT !.createReq = @ + 1], obj, c, 1, o)
       IN  [sr |-> [r.sr EXCEPT !.provisioned = "pending"],
            ops |-> r.ops \cup {Op("createResourceGroup", c, obj, 0, "scope")}]
  ELSE runPrepareSteps(sr, obj, c, 1, o)

\* The builder: lines 88-94, then the loop.
provisionBody(sr, obj, c, o) ==
  IF sr.type = "ResourceGroup"
  THEN IF envOk
       THEN [sr |-> [sr EXCEPT !.provisioned = "pending", !.createReq = @ + 1],
             ops |-> {Op("createResourceGroup", c, obj, 0, "scope")}]
       ELSE [sr |-> [sr EXCEPT !.provisioned = "rejected",
                               !.provErr = Err("createResourceGroup", 0)],
             ops |-> {}]
  ELSE runPrepareSteps(sr, obj, c, 1, o)

\* getLazyBuilder("provisioned", builder): the builder runs when the field is
\* undefined and its promise is stored in the field; later calls get that promise.
getLazyBuilder(sr, obj, c, o) ==
  IF sr.provisioned = "undefined"
  THEN provisionBody([sr EXCEPT !.bodyRuns = @ + 1], obj, c, o)
  ELSE [sr |-> sr, ops |-> {}]

\* doProvisionScope as the bare builder, without getLazyBuilder around it.
doProvisionScopeNoMemo(sr, obj, c, o) ==
  provisionBody([sr EXCEPT !.invocations = @ + 1, !.bodyRuns = @ + 1], obj, c, o)

\* Line 87: doProvisionScope is the builder of lines 88-98 behind getLazyBuilder.
doProvisionScope(sr, obj, c, o) ==
  getLazyBuilder([sr EXCEPT !.invocations = @ + 1], obj, c, o)

----------------------------------------------------------------------------
\* cleanUpScope and the try/catch/finally of executeScenario.  Each operator gives
\* the call after the code has run to its next suspension point (or to the end),
\* and the client operations issued.

\* A finally block whose error does not replace the one already being thrown.
throwInFinallyKeepFirst(cr, e) ==
  settle([cr EXCEPT !.cleanErr = e], IF cr.err # NoErr THEN cr.err ELSE e)

\* An error thrown inside the finally block (lines 185-189) is the error the call
\* rejects with: it replaces the error the catch clause threw.
throwInFinally(cr, e) == settle([cr EXCEPT !.cleanErr = e], e)

\* Lines 152-156.
deleteScope(cr, c, sr) ==
  IF sr.type = "ResourceGroup"
  THEN IF envOk
       THEN [cr |-> [cr EXCEPT !.pc = "deleteResourceGroup", !.idx = 0, !.delReq = @ + 1,
                               !.deleteRequested = TRUE],
             ops |-> {Op("deleteResourceGroup", c, cr.scope, 0, "scope")}]
       ELSE [cr |-> throwInFinally(cr, Err("deleteResourceGroup", 0)), ops |-> {}]
  ELSE [cr |-> settle(cr, cr.err), ops |-> {}]

\* cleanUpScope, lines 148-157, from cleanup step j; an error thrown here leaves the
\* finally block and replaces the error the catch clause threw.
cleanUpScope(cr, c, sr, j, o) ==
  IF j <= sr.nCleanUp
  THEN IF o = "sent"
       THEN [cr |-> [cr EXCEPT !.pc = "cleanUpSteps", !.idx = j, !.cleanLog = Append(@, j)],
             ops |-> {Op("cleanUpStep", c, cr.scope, j, "scope")}]
       ELSE [cr |-> throwInFinally(cr, executeStepError("cleanUpStep", j, o)), ops |-> {}]
  ELSE deleteScope(cr, c, sr)

\* The finally block without the test of line 186.
finallyBlockNoSkip(cr, c, sr, o) ==
  cleanUpScope([cr EXCEPT !.finallySkip = IF skipCleanUp THEN "set" ELSE "unset"], c, sr, 1, o)

\* The finally block, lines 185-189.
finallyBlock(cr, c, sr, o) ==
  LET fr == [cr EXCEPT !.finallySkip = IF skipCleanUp THEN "set" ELSE "unset"]
  IN  IF ~skipCleanUp
      THEN cleanUpScope(fr, c, sr, 1, o)
      ELSE [cr |-> settle(fr, fr.err), ops |-> {}]

\* The catch clause, lines 183-184, for the error e of step i, then the finally block.
catchBlock(cr, c, sr, i, e, o) ==
  finallyBlock([cr EXCEPT !.err = wrapScenario(e), !.failedAt = i], c, sr, o)

\* The loop with the await of line 181 missing: step i + 1 is dispatched without
\* waiting for step i.
runStepsNoAwait(cr, c, sr, i, o1, o2) ==
  IF o1 # "none"
  THEN [cr |-> [cr EXCEPT !.pc = "steps", !.idx = i, !.stepLog = @ \o <<i, i + 1>>],
        ops |-> {Op("step", c, cr.scope, k, "scenario") : k \in {i, i + 1}}]
  ELSE finallyBlock(cr, c, sr, o2)

\* The loop of lines 180-182 at its i-th iteration.  o1 is "none" when scenario.steps
\* has no i-th element, and otherwise what executeStep does with step i; o2 is what
\* executeStep does with the first cleanup step, should the loop end here.
runSteps(cr, c, sr, i, o1, o2) ==
  IF o1 # "none"
  THEN IF o1 = "sent"
       THEN [cr |-> [cr EXCEPT !.pc = "steps", !.idx = i, !.stepLog = Append(@, i)],
             ops |-> {Op("step", c, cr.scope, i, "scenario")}]
       ELSE catchBlock(cr, c, sr, i, executeStepError("step", i, o1), o2)
  ELSE finallyBlock(cr, c, sr, o2)

----------------------------------------------------------------------------
\* Actions.

\* setSkipCleanUp, lines 83-85.
setSkipCleanUp(b) ==
  /\ skipCleanUp' = b
  /\ UNCHANGED <<ld, ex, def, envOk, overlap, scopeTracking, scopes, randCount, call, pending>>

\* executeScenario, lines 169-175: up to the call of client.prepareScenario.  Of the
\* scenario only shareScope is read here; its step list is iterated by line 180.
executeScenario(c, shareScope) ==
  /\ call[c].pc = "idle"
  /\ \A d \in Calls : d < c => call[d].pc # "idle"
  /\ overlap \/ \A d \in Calls : ~Active(call[d])
  /\ LET p == prepareScope(shareScope)
         cr == [IdleCall EXCEPT !.shareScope = shareScope,
                                !.scopeName = p.name, !.scope = p.scope]
     IN  /\ scopeTracking' = p.tracking
         /\ scopes' = forgetScopes(p.objects, p.tracking, p.scope)
         /\ randCount' = p.rand
         /\ IF p.thrown
            THEN /\ call' = [d \in Calls |->
                               IF d = c THEN settle(cr, Err("prepareScope", 0))
                               ELSE forget(call[d])]
                 /\ pending' = pending
            ELSE /\ call' = [d \in Calls |->
                               IF d = c
                               THEN [cr EXCEPT !.pc = "prepareScenario", !.hookReq = @ + 1]
                               ELSE forget(call[d])]
                 /\ pending' = pending \cup {Op("prepareScenario", c, p.scope, 0, "scenario")}
  /\ UNCHANGED <<ld, ex, def, envOk, overlap, skipCleanUp>>

\* client.prepareScenario settles (line 175); on success line 177 calls doProvisionScope.
prepareScenarioSettled(c, ok, o) ==
  /\ call[c].pc = "prepareScenario"
  /\ LET op == Op("prepareScenario", c, call[c].scope, 0, "scenario")
         obj == call[c].scope
     IN  /\ op \in pending
         /\ IF ok
            THEN LET r == doProvisionScope(scopes[obj], obj, c, o)
                 IN  /\ scopes' = [scopes EXCEPT ![obj] = r.sr]
                     /\ pending' = (pending \ {op}) \cup r.ops
                     /\ call' = [call EXCEPT ![c].pc = "doProvisionScope",
                                             ![c].ranBody = (r.sr.bodyRuns > scopes[obj].bodyRuns)]
            ELSE /\ call' = [call EXCEPT ![c] = settle(@, Err("prepareScenario", 0))]
                 /\ pending' = pending \ {op}
                 /\ scopes' = scopes
  /\ UNCHANGED <<ld, ex, def, envOk, overlap, skipCleanUp, scopeTracking, randCount>>

\* client.createResourceGroup settles (lines 89-94); on success the prepare steps start.
createResourceGroupSettled(obj, ok, o) ==
  /\ \E op \in pending :
       /\ op.kind = "createResourceGroup" /\ op.scope = obj
       /\ LET r == IF ok
                   THEN runPrepareSteps([scopes[obj] EXCEPT !.created = TRUE],
                                        obj, op.call, 1, o)
                   ELSE [sr |-> [scopes[obj] EXCEPT !.provisioned = "rejected",
                                                    !.provErr = Err("createResourceGroup", 0)],
                         ops |-> {}]
          IN  /\ scopes' = [scopes EXCEPT ![obj] = r.sr]
              /\ pending' = (pending \ {op}) \cup r.ops
  /\ UNCHANGED <<ld, ex, def, envOk, overlap, skipCleanUp, scopeTracking, randCount, call>>

\* The client operation of a prepare step settles (line 96).
prepareStepSettled(obj, ok, o) ==
  /\ \E op \in pending :
       /\ op.kind = "prepareStep" /\ op.scope = obj
       /\ LET r == IF ok
                   THEN runPrepareSteps([scopes[obj] EXCEPT !.prepDone = op.idx],
                                        obj, op.call, op.idx + 1, o)
                   ELSE [sr |-> [scopes[obj] EXCEPT
                                   !.provisioned = "rejected",
                                   !.provErr = executeStepError("prepareStep", op.idx, "sent")],
                         ops |-> {}]
          IN  /\ scopes' = [scopes EXCEPT ![obj] = r.sr]
              /\ pending' = (pending \ {op}) \cup r.ops
  /\ UNCHANGED <<ld, ex, def, envOk, overlap, skipCleanUp, scopeTracking, randCount, call>>

\* The await of line 177 ends: the memoized promise has settled.
provisionAwaited(c, o1, o2) ==
  /\ call[c].pc = "doProvisionScope"
  /\ LET sr == scopes[call[c].scope]
     IN  /\ sr.provisioned \in {"resolved", "rejected"}
         /\ LET r == IF sr.provisioned = "rejected"
                     THEN [cr |-> settle(call[c], sr.provErr), ops |-> {}]
                     ELSE runSteps([call[c] EXCEPT !.enteredTry = TRUE], c, sr, 1, o1, o2)
            IN  /\ call' = [call EXCEPT ![c] = r.cr]
                /\ pending' = pending \cup r.ops
  /\ UNCHANGED <<ld, ex, def, envOk, overlap, skipCleanUp, scopeTracking, scopes, randCount>>

\* The client operation of a scenario step settles (line 181).
stepSettled(c, ok, o1, o2) ==
  /\ call[c].pc = "steps"
  /\ LET op == Op("step", c, call[c].scope, call[c].idx, "scenario")
         sr == scopes[call[c].scope]
         r == IF ok
              THEN runSteps(call[c], c, sr, op.idx + 1, o1, o2)
              ELSE catchBlock(call[c], c, sr, op.idx,
                              executeStepError("step", op.idx, "sent"), o2)
     IN  /\ op \in pending
         /\ call' = [call EXCEPT ![c] = r.cr]
         /\ pending' = (pending \ {op}) \cup r.ops
  /\ UNCHANGED <<ld, ex, def, envOk, overlap, skipCleanUp, scopeTracking, scopes, randCount>>

\* The client operation of a cleanup step settles (line 150).
cleanUpStepSettled(c, ok, o) ==
  /\ call[c].pc = "cleanUpSteps"
  /\ LET op == Op("cleanUpStep", c, call[c].scope, call[c].idx, "scope")
         sr == scopes[call[c].scope]
         r == IF ok
              THEN cleanUpScope(call[c], c, sr, op.idx + 1, o)
              ELSE [cr |-> throwInFinally(call[c],
                                          executeStepError("cleanUpStep", op.idx, "sent")),
                    ops |-> {}]
     IN  /\ op \in pending
         /\ call' = [call EXCEPT ![c] = r.cr]
         /\ pending' = (pending \ {op}) \cup r.ops
  /\ UNCHANGED <<ld, ex, def, envOk, overlap, skipCleanUp, scopeTracking, scopes, randCount>>

\* client.deleteResourceGroup settles (line 155).
deleteResourceGroupSettled(c, ok) ==
  /\ call[c].pc = "deleteResourceGroup"
  /\ LET op == Op("deleteResourceGroup", c, call[c].scope, 0, "scope")
     IN  /\ op \in pending
         /\ call' = [call EXCEPT ![c] =
                       IF ok THEN settle(@, @.err)
                       ELSE throwInFinally(@, Err("deleteResourceGroup", 0))]
         /\ pending' = pending \ {op}
  /\ UNCHANGED <<ld, ex, def, envOk, overlap, skipCleanUp, scopeTracking, scopes, randCount>>

Objects == 1..MaxCalls

\* The outcomes to draw for the step an action may start: one is drawn only when
\* there is a step to start.
Outcomes(startsStep) == IF startsStep THEN StepOutcomes ELSE {"sent"}

FirstPrepare(c) ==
  Outcomes(call[c].scope # 0 /\ scopes[call[c].scope].provisioned = "undefined"
           /\ def.scope # "ResourceGroup" /\ def.nPrepare > 0)

NextPrepare(obj, ok) ==
  Outcomes(ok /\ \E op \in pending : op.scope = obj /\ op.idx < def.nPrepare)

\* What the i-th iteration of the step loop may find, after the step before it
\* settled with ok: no further step, or a step and what executeStep does with it.
\* A scenario has at most MaxSteps steps.
NextStep(i, ok) ==
  IF ok THEN {"none"} \cup (IF i <= MaxSteps THEN StepOutcomes ELSE {}) ELSE {"sent"}

FirstCleanUp(ok, o1) ==
  Outcomes(~skipCleanUp /\ def.nCleanUp > 0 /\ (~ok \/ o1 # "sent"))

NextCleanUp(c, ok) == Outcomes(ok /\ call[c].idx < def.nCleanUp)

\* setSkipCleanUp is drawn with the other value only: a call that stores the value
\* the flag already has changes nothing.
Next ==
  \/ \E b \in BOOLEAN \ {skipCleanUp} : setSkipCleanUp(b)
  \/ \E c \in Calls, shareScope \in BOOLEAN : executeScenario(c, shareScope)
  \/ \E c \in Calls, ok \in BOOLEAN : \E o \in FirstPrepare(c) : prepareScenarioSettled(c, ok, o)
  \/ \E obj \in Objects, ok \in BOOLEAN : \E o \in NextPrepare(obj, ok) :
       createResourceGroupSettled(obj, ok, o)
  \/ \E obj \in Objects, ok \in BOOLEAN : \E o \in NextPrepare(obj, ok) :
       prepareStepSettled(obj, ok, o)
  \/ \E c \in Calls : \E o1 \in NextStep(1, TRUE) : \E o2 \in FirstCleanUp(TRUE, o1) :
       provisionAwaited(c, o1, o2)
  \/ \E c \in Calls, ok \in BOOLEAN :
       \E o1 \in NextStep(call[c].idx + 1, ok) : \E o2 \in FirstCleanUp(ok, o1) :
         stepSettled(c, ok, o1, o2)
  \/ \E c \in Calls, ok \in BOOLEAN : \E o \in NextCleanUp(c, ok) : cleanUpStepSettled(c, ok, o)
  \/ \E c \in Calls, ok \in BOOLEAN : deleteResourceGroupSettled(c, ok)

Spec == Init /\ [][Next]_vars

----------------------------------------------------------------------------
\* Properties.

\* A call whose record is still kept: it has started and no later call has started
\* after it settled.
Recorded(c) == call[c].pc \notin {"idle", "settled"}

\* The call has returned to its caller, and its record is still kept.
Returned(c) == call[c].pc \in {"resolved", "rejected"}

InOrder(log) == \A k \in 1..Len(log) : log[k] = k

PendingOf(c) == {op \in pending : op.call = c}

PendingOn(obj, kinds) == {op \in pending : op.scope = obj /\ op.kind \in kinds}

StepSources == {"prepareStep", "step", "cleanUpStep"}

\* C1: on every Scope object, however often doProvisionScope is invoked on it, the
\* provisioning body runs exactly once (from the first invocation on), whether it
\* succeeded or failed: createResourceGroup is requested at most once and no prepare
\* step is dispatched twice.
C1_ProvisionedOnce ==
  \A o \in DOMAIN scopes :
    LET sr == scopes[o]
    IN  /\ sr.invocations >= 1 => sr.bodyRuns = 1
        /\ sr.invocations = 0 => sr.bodyRuns = 0
        /\ sr.createReq <= 1
        /\ \A i, j \in 1..Len(sr.prepLog) : sr.prepLog[i] = sr.prepLog[j] => i = j

\* doProvisionScope was invoked twice on a scope whose provisioning had dispatched a
\* prepare step and failed.
C1_Witness ==
  \E o \in DOMAIN scopes :
    /\ scopes[o].invocations >= 2
    /\ scopes[o].provisioned = "rejected"
    /\ scopes[o].prepLog # <<>>

\* C2: with skipCleanUp unset when the steps end, if scenario step k fails then no
\* step after k is dispatched and every cleanup step of the scope is dispatched
\* before the call returns.
C2_StepFailureStillCleansUp ==
  \A c \in Calls :
    (Returned(c) /\ call[c].failedAt > 0 /\ call[c].finallySkip = "unset") =>
      /\ \A k \in 1..Len(call[c].stepLog) : call[c].stepLog[k] <= call[c].failedAt
      /\ Len(call[c].cleanLog) = scopes[call[c].scope].nCleanUp
      /\ InOrder(call[c].cleanLog)

\* C3: two calls for shareScope=true scenarios resolve to one Scope object, the one
\* registered under the default name; two calls for shareScope=false scenarios
\* resolve to distinct objects registered under different names.
C3_ScopeSharing ==
  /\ \A c, d \in Calls :
       (c # d /\ call[c].scope # 0 /\ call[d].scope # 0) =>
         /\ (call[c].shareScope /\ call[d].shareScope) =>
              /\ call[c].scope = call[d].scope
              /\ call[c].scopeName = call[d].scopeName
         /\ (~call[c].shareScope /\ ~call[d].shareScope) =>
              /\ call[c].scope # call[d].scope
              /\ call[c].scopeName # call[d].scopeName
  /\ \A c \in Calls :
       call[c].scope # 0 => scopeTracking[call[c].scopeName] = call[c].scope
  /\ \A n, m \in ScopeNames :
       (scopeTracking[n] # 0 /\ scopeTracking[n] = scopeTracking[m]) => n = m

\* Two calls for shareScope=true scenarios have both resolved their scope.
C3_Witness ==
  \E c, d \in Calls :
    /\ c # d
    /\ call[c].shareScope /\ call[d].shareScope
    /\ call[c].scope # 0 /\ call[d].scope # 0

\* C4: within one call the scenario steps are dispatched in declaration order, and
\* the call never has two client operations outstanding: the operation of a step
\* has settled before the next one is issued.
C4_StepsSequential ==
  \A c \in Calls :
    /\ InOrder(call[c].stepLog)
    /\ Cardinality(PendingOf(c)) <= 1
    /\ \A op \in PendingOf(c) :
         op.kind = "step" => (op.idx = Len(call[c].stepLog) /\ op.env = "scenario")

\* The second step of a scenario is outstanding.
C4_Witness ==
  \E c \in Calls :
    /\ call[c].stepLog = <<1, 2>>
    /\ Op("step", c, call[c].scope, 2, "scenario") \in pending

\* The order of the hook in a call: the hook is invoked at most once, and while it is outstanding, after it has rejected, or when
\* it was never invoked, the call has started no provisioning and issued no
\* scenario-step, cleanup-step or deleteResourceGroup operation.
C5_HookFirst ==
  \A c \in Calls :
    /\ call[c].hookReq <= 1
    /\ (call[c].pc = "prepareScenario" \/ call[c].result.src = "prepareScenario"
          \/ (Recorded(c) /\ call[c].hookReq = 0)) =>
         /\ ~call[c].ranBody
         /\ call[c].stepLog = <<>> /\ call[c].cleanLog = <<>> /\ call[c].delReq = 0
         /\ \A op \in PendingOf(c) : op.kind = "prepareScenario"
    /\ call[c].ranBody => call[c].hookReq = 1

\* C5: in every executeScenario call client.prepareScenario is invoked exactly once,
\* before any provisioning the call causes; if the hook rejects, the call issues no
\* provisioning, scenario-step or cleanup operation.
C5_HookInEveryCall ==
  /\ C5_HookFirst
  /\ \A c \in Calls : Recorded(c) => call[c].hookReq = 1

\* The parts of C6 on the order of provisioning: createResourceGroup is requested
\* only for a ResourceGroup scope and has succeeded before a prepare step is
\* dispatched; the prepare steps are dispatched in declaration order against the
\* scope environment, each after the one before it succeeded; and a scenario step is
\* dispatched only when every prepare step of its scope has succeeded.
C6_Order ==
  /\ \A o \in DOMAIN scopes :
       LET sr == scopes[o]
       IN  /\ sr.createReq > 0 => sr.type = "ResourceGroup"
           /\ (sr.type = "ResourceGroup" /\ sr.prepLog # <<>>) => sr.created
           /\ sr.created => PendingOn(o, {"createResourceGroup"}) = {}
           /\ InOrder(sr.prepLog)
           /\ Len(sr.prepLog) <= sr.nPrepare
           /\ sr.prepDone >= Len(sr.prepLog) - 1
           /\ \A op \in PendingOn(o, {"prepareStep"}) :
                op.idx = Len(sr.prepLog) /\ op.env = "scope"
  /\ \A c \in Calls :
       call[c].stepLog # <<>> =>
         LET sr == scopes[call[c].scope]
         IN  /\ sr.provisioned = "resolved"
             /\ sr.prepDone = sr.nPrepare
             /\ Len(sr.prepLog) = sr.nPrepare
             /\ sr.type = "ResourceGroup" => sr.created
             /\ PendingOn(call[c].scope, {"createResourceGroup", "prepareStep"}) = {}

\* C6 (as amended): provisioning requests createResourceGroup only for a
\* ResourceGroup scope, and for such a scope exactly when subscriptionId,
\* resourceGroupName and location resolve to strings in the scope environment
\* (otherwise provisioning fails with no request); the order is as stated.
C6_CreateWhenResolvable ==
  /\ C6_Order
  /\ \A o \in DOMAIN scopes :
       scopes[o].bodyRuns > 0 =>
         (scopes[o].createReq = 1 <=> (scopes[o].type = "ResourceGroup" /\ envOk))

\* The first step of a scenario is dispatched in a ResourceGroup scope with two
\* prepare steps.
C6_Witness ==
  \E c \in Calls :
    /\ call[c].stepLog # <<>>
    /\ scopes[call[c].scope].type = "ResourceGroup"
    /\ scopes[call[c].scope].prepLog = <<1, 2>>

\* C6 (as stated): provisioning requests createResourceGroup if and only if the
\* scope kind is ResourceGroup.
C6_CreateIffResourceGroup ==
  /\ C6_Order
  /\ \A o \in DOMAIN scopes :
       scopes[o].bodyRuns > 0 =>
         (scopes[o].createReq = 1 <=> scopes[o].type = "ResourceGroup")

\* C7: with skipCleanUp unset when the steps end, the call dispatches every cleanup
\* step, in declaration order and against the scope environment, and only after
\* them, for a ResourceGroup scope and no other, requests deleteResourceGroup.
C7_CleanUpThenDelete ==
  \A c \in Calls :
    LET cr == call[c]
    IN  /\ InOrder(cr.cleanLog)
        /\ \A op \in PendingOf(c) : op.kind = "cleanUpStep" => op.env = "scope"
        /\ cr.delReq > 0 =>
             /\ scopes[cr.scope].type = "ResourceGroup"
             /\ Len(cr.cleanLog) = scopes[cr.scope].nCleanUp
             /\ \A op \in PendingOf(c) : op.kind # "cleanUpStep"
        /\ (Returned(c) /\ cr.finallySkip = "unset") =>
             /\ Len(cr.cleanLog) = scopes[cr.scope].nCleanUp
             /\ cr.delReq = 1 <=> scopes[cr.scope].type = "ResourceGroup"

C9_ErrorsCarryNames ==
  \A c \in Calls :
    (call[c].pc = "rejected"
       /\ call[c].result.src \in StepSources \cup {"createResourceGroup", "deleteResourceGroup"}) =>
      /\ call[c].result.scenarioName
      /\ call[c].result.src \in StepSources => call[c].result.stepName

\* C10: when a scenario step failed and the cleanup after it failed too, the call
\* rejects with the cleanup error, not with the step error.
C10_CleanUpErrorWins ==
  \A c \in Calls :
    (Returned(c) /\ call[c].failedAt > 0 /\ call[c].cleanErr # NoErr) =>
      /\ call[c].pc = "rejected"
      /\ call[c].result = call[c].cleanErr
      /\ call[c].result.src \in {"cleanUpStep", "deleteResourceGroup"}
      /\ call[c].err.src = "step" /\ call[c].result # call[c].err

\* A step failed and then a cleanup operation failed.
C10_Witness ==
  \E c \in Calls :
    /\ Returned(c)
    /\ call[c].failedAt > 0
    /\ call[c].cleanErr # NoErr

\* C28: when createResourceGroup has succeeded for the scope a call provisioned and
\* skipCleanUp is unset, the call has requested deleteResourceGroup for that
\* container by the time it returns, also when a prepare step or a cleanup step failed.
C28_CreatedThenDeleted ==
  \A c \in Calls :
    (Returned(c) /\ call[c].ranBody /\ scopes[call[c].scope].created
       /\ ~skipCleanUp /\ call[c].finallySkip # "set") =>
      call[c].delReq = 1

\* C27: once a call has requested deleteResourceGroup for the container of a scope,
\* no prepare step and no scenario step is dispatched for that scope, by that call or
\* by a later call that resolves to the same shared scope.
C27_NoDispatchAfterDelete ==
  [][\A op \in pending' \ pending :
       op.kind \in {"prepareStep", "step"} =>
         \A d \in Calls : ~(call[d].deleteRequested /\ call[d].scope = op.scope)]_vars

----------------------------------------------------------------------------
\* Overlapping calls: the caller starts an executeScenario call without awaiting the
\* one before it, so the calls interleave at every await on the client.

\* The scenarios belong to a definition with a ResourceGroup scope.
OverlapInit == InitRunner /\ overlap = TRUE /\ def.scope = "ResourceGroup"

OverlapSpec == OverlapInit /\ [][Next]_vars

----------------------------------------------------------------------------
\* Part II: ApiScenarioLoader.
\*
\* JavaScript values are strings here: Undefined stands for undefined, every other
\* string for itself.  A variable map is a function on VarNames whose value at an
\* absent key is NoVariable; a list (requiredVariables, secretVariables) is a sequence.

MaxVars == 2        \* entries of one raw variables map

Undefined == "undefined"

\* The names a raw definition may give its variables, in the order maps list them.
VarKeys == <<"x", "y", "z">>

VarNames == {VarKeys[i] : i \in 1..Len(VarKeys)}
              \cup {"subscriptionId", "location", "resourceGroupName"}

\* Variable, apiScenarioTypes.ts lines 15-62.
NoVariable == [type |-> Undefined, value |-> Undefined, prefix |-> Undefined, patches |-> Undefined]

StringTypes == {"string", "secureString"}

ScalarTypes == {"bool", "int"}

ContainerTypes == {"object", "secureObject", "array"}

\* The entries of RawVariableScope["variables"] (apiScenarioTypes.ts lines 64-68): a
\* string, or a Variable.  Only string types carry a prefix, only container types
\* carry patches (lines 24-62).
RawVariables ==
  [js : {"string"}, type : {Undefined}, value : {"", "v"}, prefix : {Undefined},
   patches : {Undefined}]
  \cup [js : {"object"}, type : StringTypes, value : {Undefined, "v"},
        prefix : {Undefined, "p"}, patches : {Undefined}]
  \cup [js : {"object"}, type : ScalarTypes, value : {Undefined, "v"},
        prefix : {Undefined}, patches : {Undefined}]
  \cup [js : {"object"}, type : ContainerTypes, value : {Undefined, "v"},
        prefix : {Undefined}, patches : {Undefined, "patches"}]

Includes(list, name) == \E i \in 1..Len(list) : list[i] = name

\* The empty VariableScope of lines 1033-1037.
EmptyScope ==
  [variables |-> [k \in VarNames |-> NoVariable], requiredVariables |-> <<>>,
   secretVariables |-> <<>>, error |-> ""]

\* The loop body without the test of val.prefix (line 1048).
convertVariableNoPrefix(result, key, val) ==
  IF val.js = "string"
  THEN [result EXCEPT !.variables[key] =
          [type |-> "string", value |-> val.value, prefix |-> Undefined, patches |-> Undefined]]
  ELSE LET stored == [result EXCEPT !.variables[key] =
                        [type |-> val.type, value |-> val.value, prefix |-> val.prefix,
                         patches |-> val.patches]]
       IN  IF val.value = Undefined /\ val.type \in StringTypes
           THEN [stored EXCEPT !.requiredVariables = Append(@, key)]
           ELSE stored

\* The body of the loop of convertVariables, lines 1039-1065, for one entry.
convertVariable(result, key, val) ==
  IF val.js = "string"
  THEN [result EXCEPT !.variables[key] =
          [type |-> "string", value |-> val.value, prefix |-> Undefined, patches |-> Undefined]]
  ELSE LET stored == [result EXCEPT !.variables[key] =
                        [type |-> val.type, value |-> val.value, prefix |-> val.prefix,
                         patches |-> val.patches]]
           checked ==
             IF val.value = Undefined
             THEN IF val.type \in StringTypes
                  THEN IF val.prefix = Undefined
                       THEN [stored EXCEPT !.requiredVariables = Append(@, key)]
                       ELSE stored
                  ELSE IF val.type \in ContainerTypes /\ val.patches # Undefined
                       THEN stored
                       ELSE [stored EXCEPT !.error = "Only string and secureString type is supported"]
             ELSE stored
       IN  IF checked.error # ""
           THEN checked
           ELSE IF val.type \in {"secureString", "secureObject"}
                THEN [checked EXCEPT !.secretVariables = Append(@, key)]
                ELSE checked

RECURSIVE convertEntries(_, _, _)
convertEntries(result, raw, i) ==
  IF i > Len(raw) \/ result.error # ""
  THEN result
  ELSE convertEntries(convertVariable(result, VarKeys[i], raw[i]), raw, i + 1)

\* convertVariables, lines 1032-1068.  raw is the raw map as the sequence of its
\* values: raw[i] is the entry of key VarKeys[i]; <<>> is an absent or empty map.
\* A thrown error is the error field; nothing else of the result is then returned.
convertVariables(raw) == convertEntries(EmptyScope, raw, 1)

----------------------------------------------------------------------------
\* variableRegex, line 346: /\$\(([A-Za-z_$][A-Za-z0-9_]*)\)/ on strings given as
\* sequences of characters.  "x", "y", "z" stand for the letters, "1" for the digits.

IdentifierStart == {"x", "y", "z", "_", "$"}

IdentifierPart == {"x", "y", "z", "_", "1"}

\* The end of the longest run of identifier-part characters of s that starts at i.
RECURSIVE identifierEnd(_, _)
identifierEnd(s, i) ==
  IF i <= Len(s) /\ s[i] \in IdentifierPart THEN identifierEnd(s, i + 1) ELSE i

RECURSIVE Join(_)
Join(s) == IF s = <<>> THEN "" ELSE s[1] \o Join(Tail(s))

\* The match of variableRegex anchored at position i of s, if there is one.  The
\* group's repetition is greedy and ")" is no identifier character, so the match at
\* i is the one that takes the whole run.
matchAt(s, i) ==
  IF i + 3 <= Len(s) /\ s[i] = "$" /\ s[i + 1] = "(" /\ s[i + 2] \in IdentifierStart
  THEN LET e == identifierEnd(s, i + 3)
       IN  IF e <= Len(s) /\ s[e] = ")"
           THEN [found |-> TRUE, name |-> Join(SubSeq(s, i + 2, e - 1)), lastIndex |-> e + 1]
           ELSE [found |-> FALSE, name |-> "", lastIndex |-> 1]
  ELSE [found |-> FALSE, name |-> "", lastIndex |-> 1]

\* RegExp.prototype.exec of the global copy (line 946) from lastIndex i: the
\* leftmost match at or after i.
RECURSIVE regexExec(_, _)
regexExec(s, i) ==
  IF i > Len(s)
  THEN [found |-> FALSE, name |-> "", lastIndex |-> 1]
  ELSE LET r == matchAt(s, i) IN IF r.found THEN r ELSE regexExec(s, i + 1)

\* The while loop of lines 948-957, which looks only at the first match.
secretMatchFirstOnly(s, i, secrets) ==
  LET r == regexExec(s, i)
  IN  r.found /\ Includes(secrets, r.name)

\* The while loop of lines 948-957 from lastIndex i; secrets is the three lists of
\* lines 951-953, one after the other.
RECURSIVE secretMatch(_, _, _)
secretMatch(s, i, secrets) ==
  LET r == regexExec(s, i)
  IN  IF r.found
      THEN IF Includes(secrets, r.name) THEN TRUE ELSE secretMatch(s, r.lastIndex, secrets)
      ELSE FALSE

\* ctx.scenario is undefined until loadScenario sets it (line 604).
NoScenario ==
  [defined |-> FALSE, scenario |-> Undefined, shareScope |-> FALSE, steps |-> <<>>,
   variables |-> [k \in VarNames |-> NoVariable], requiredVariables |-> <<>>,
   secretVariables |-> <<>>]

\* isSecretVariable, lines 942-961.
isSecretVariable(variable, step, ctx) ==
  IF regexExec(variable, 1).found
  THEN secretMatch(variable, 1,
                   step.secretVariables
                     \o (IF ctx.scenario.defined THEN ctx.scenario.secretVariables ELSE <<>>)
                     \o ctx.scenarioDef.secretVariables)
  ELSE FALSE

\* A scenario definition as load() builds it (lines 524-532), before any step.
EmptyDef ==
  [scope |-> "ResourceGroup", prepareSteps |-> <<>>, scenarios |-> <<>>, cleanUpSteps |-> <<>>,
   variables |-> [k \in VarNames |-> NoVariable], requiredVariables |-> <<>>,
   secretVariables |-> <<>>]

\* ctx.scenarioIndex while it is undefined (line 358).
NoIndex == -1

\* ApiScenarioContext, lines 356-363, as load() creates it (lines 543-547).
EmptyCtx ==
  [stepTracking |-> {}, scenarioDef |-> EmptyDef, scenario |-> NoScenario,
   scenarioIndex |-> NoIndex, stepIndex |-> 0, stage |-> Undefined]

\* JavaScript values of parameters: t is the result of typeof, v the value's text.
JsUndefined == [t |-> "undefined", v |-> ""]

JsString(str) == IF str = Undefined THEN JsUndefined ELSE [t |-> "string", v |-> str]

\* ToBoolean, as the test of line 773 applies it.
Truthy(val) ==
  /\ val.t # "undefined"
  /\ ~(val.t = "string" /\ val.v = "")
  /\ ~(val.t = "number" /\ val.v = "0")
  /\ ~(val.t = "boolean" /\ val.v = "false")

ParamNames == VarNames \cup {"api-version"}

\* A raw step with none of its optional properties; keys holds the property names
\* the "in" tests of lines 619-623 look for.  A map that is absent is the empty
\* map: variables (line 1034) and outputVariables (lines 668, 894, 970).
NoRawStep ==
  [keys |-> {}, step |-> Undefined, variables |-> <<>>, outputVariables |-> <<>>,
   operationId |-> Undefined, readmeTag |-> Undefined,
   parameters |-> [k \in ParamNames |-> JsUndefined], exampleFile |-> Undefined,
   example |-> [operationId |-> Undefined, parameters |-> [k \in ParamNames |-> JsUndefined]],
   armTemplate |-> Undefined, template |-> [parameters |-> <<>>, outputs |-> <<>>],
   armDeploymentScript |-> Undefined, environmentVariables |-> Undefined]

\* A compiled step with the fields no step kind has set.
NoStep ==
  [type |-> Undefined, step |-> Undefined, outputVariables |-> <<>>,
   variables |-> [k \in VarNames |-> NoVariable], requiredVariables |-> <<>>,
   secretVariables |-> <<>>, operationId |-> Undefined,
   parameters |-> [k \in ParamNames |-> JsUndefined], externalReference |-> FALSE,
   exampleFile |-> Undefined, armTemplate |-> Undefined, environmentVariables |-> <<>>,
   isPrepareStep |-> FALSE, isCleanUpStep |-> FALSE]

\* The default step name of lines 662, 893 and 969.
defaultStepName(ctx, suffix) ==
  (IF ctx.scenarioIndex # NoIndex THEN ToString(ctx.scenarioIndex) ELSE ctx.stage)
    \o "_" \o ToString(ctx.stepIndex) \o "_" \o suffix

\* The step object literal of lines 890-898 and 967-974.
newArmStep(rawStep, ctx, suffix, armTemplate) ==
  LET v == convertVariables(rawStep.variables)
  IN  [NoStep EXCEPT !.type = "armTemplateDeployment",
                     !.step = IF rawStep.step # Undefined THEN rawStep.step
                              ELSE defaultStepName(ctx, suffix),
                     !.outputVariables = rawStep.outputVariables,
                     !.armTemplate = armTemplate,
                     !.variables = v.variables,
                     !.requiredVariables = v.requiredVariables,
                     !.secretVariables = v.secretVariables]

\* The loop body of lines 920-932: secure is TRUE for an entry pushed with
\* secureValue and FALSE for one pushed with value.
pushEnvironmentVariable(list, variable, step, ctx) ==
  Append(list, [name |-> variable.name, secure |-> isSecretVariable(variable.value, step, ctx),
                value |-> variable.value])

RECURSIVE pushEnvironmentVariables(_, _, _, _, _)
pushEnvironmentVariables(list, raw, i, step, ctx) ==
  IF i > Len(raw) THEN list
  ELSE pushEnvironmentVariables(pushEnvironmentVariable(list, raw[i], step, ctx), raw, i + 1,
                                step, ctx)

\* loadStepArmDeploymentScript, lines 886-940.  environmentVariables is the list of
\* entries the loop pushes onto resource.properties.environmentVariables; the script
\* file's content and the template generator's parameter convention stay outside
\* the state.
loadStepArmDeploymentScript(rawStep, ctx) ==
  LET v == convertVariables(rawStep.variables)
      step == newArmStep(rawStep, ctx, "ArmDeploymentScript", "")
      raw == IF rawStep.environmentVariables # Undefined THEN rawStep.environmentVariables
             ELSE <<>>
  IN  IF v.error # ""
      THEN [step |-> NoStep, ctx |-> ctx, error |-> v.error]
      ELSE [step |-> [step EXCEPT !.environmentVariables =
                                    pushEnvironmentVariables(<<>>, raw, 1, step, ctx)],
            ctx |-> ctx, error |-> ""]

----------------------------------------------------------------------------
\* The operation indexes of the loader, lines 368-377.

OperationIds == {"Op_A", "Op_B"}

ExamplePaths == {"dir/a.json", "dir/b.json"}

ReadmeTags == {"tag"}

NoOperation == [defined |-> FALSE, operationId |-> Undefined, parameters |-> <<>>]

\* One pair of operationsMap and apiVersionsMap with nothing set.
EmptyIndex ==
  [defined |-> TRUE, operationsMap |-> [o \in OperationIds |-> NoOperation],
   apiVersionsMap |-> [o \in OperationIds |-> Undefined], error |-> ""]

\* The loader after construction, lines 368-378.
NewLoader ==
  [main |-> EmptyIndex, exampleToOperation |-> [f \in ExamplePaths |-> <<>>],
   additionalMap |-> [t \in ReadmeTags |-> [EmptyIndex EXCEPT !.defined = FALSE]],
   initialized |-> FALSE, error |-> ""]

\* Lines 501-506 with a new key for every example, whatever the operation.
setExampleAppend(opMap, operationId, exampleName) ==
  Append(opMap, [operationId |-> operationId, exampleName |-> exampleName])

\* Lines 501-506: opMap[operationId] = exampleName on the entry of one example
\* file; opMap is the sequence of its keys in insertion order with their values,
\* and <<>> is the entry egOpMap does not have.
setExample(opMap, operationId, exampleName) ==
  IF \E i \in 1..Len(opMap) : opMap[i].operationId = operationId
  THEN [i \in 1..Len(opMap) |->
          IF opMap[i].operationId = operationId
          THEN [operationId |-> operationId, exampleName |-> exampleName] ELSE opMap[i]]
  ELSE Append(opMap, [operationId |-> operationId, exampleName |-> exampleName])

RECURSIVE setExamples(_, _, _)
setExamples(egOpMap, operation, i) ==
  IF i > Len(operation.examples) THEN egOpMap
  ELSE LET example == operation.examples[i]
       IN  setExamples([egOpMap EXCEPT ![example.ref] =
                          setExample(@, operation.operationId, example.name)], operation, i + 1)

\* onOperation, lines 474-509, for one operation of a swagger of the given version.
\* acc holds the index being filled and the example map.
onOperation(acc, operation, version, withExamples) ==
  IF acc.index.operationsMap[operation.operationId].defined
  THEN [acc EXCEPT !.index.error = "Duplicated operationId"]
  ELSE [index |-> [acc.index EXCEPT
                     !.operationsMap[operation.operationId] =
                       [defined |-> TRUE, operationId |-> operation.operationId,
                        parameters |-> operation.parameters],
                     !.apiVersionsMap[operation.operationId] = version],
        egOpMap |-> IF withExamples THEN setExamples(acc.egOpMap, operation, 1)
                    ELSE acc.egOpMap]

\* loadSwaggers, lines 457-512: the operations of the swaggers in order, up to the
\* first error.  ops is the sequence of <<operation, version>> pairs.
RECURSIVE traverseSwaggers(_, _, _, _)
traverseSwaggers(acc, ops, i, withExamples) ==
  IF i > Len(ops) \/ acc.index.error # "" THEN acc
  ELSE traverseSwaggers(onOperation(acc, ops[i][1], ops[i][2], withExamples), ops, i + 1,
                        withExamples)

RECURSIVE swaggerOperations(_)
swaggerOperations(specs) ==
  IF specs = <<>> THEN <<>>
  ELSE [i \in 1..Len(specs[1].operations) |-> <<specs[1].operations[i], specs[1].version>>]
         \o swaggerOperations(Tail(specs))

loadSwaggers(specs, index, egOpMap, withExamples) ==
  traverseSwaggers([index |-> index, egOpMap |-> egOpMap], swaggerOperations(specs), 1,
                   withExamples)

\* The loop of lines 426-451 over the readme tags; a tag whose input files are not
\* found (line 431) has inputFiles Undefined.
RECURSIVE loadReadmeTags(_, _, _)
loadReadmeTags(loader, readmeTags, i) ==
  IF i > Len(readmeTags) \/ loader.error # "" THEN loader
  ELSE LET e == readmeTags[i]
       IN  IF e.inputFiles = Undefined
           THEN loadReadmeTags(loader, readmeTags, i + 1)
           ELSE LET r == loadSwaggers(e.inputFiles, EmptyIndex, loader.exampleToOperation,
                                      FALSE)
                IN  loadReadmeTags([loader EXCEPT !.additionalMap[e.name] = r.index,
                                                  !.error = r.index.error],
                                   readmeTags, i + 1)

\* initialize without the test of lines 412-414: the indexes are built on every call.
initializeEveryLoad(loader, swaggerFilePaths, readmeTags) ==
  LET r == loadSwaggers(swaggerFilePaths, loader.main, loader.exampleToOperation, TRUE)
      loaded == [loader EXCEPT !.main = r.index, !.exampleToOperation = r.egOpMap,
                               !.error = r.index.error]
      tagged == loadReadmeTags(loaded, readmeTags, 1)
  IN  IF tagged.error # "" THEN tagged ELSE [tagged EXCEPT !.initialized = TRUE]

\* initialize, lines 411-455.
initialize(loader, swaggerFilePaths, readmeTags) ==
  IF loader.initialized
  THEN [loader EXCEPT !.error = "Already initialized"]
  ELSE LET r == loadSwaggers(swaggerFilePaths, loader.main, loader.exampleToOperation, TRUE)
           loaded == [loader EXCEPT !.main = r.index, !.exampleToOperation = r.egOpMap,
                                    !.error = r.index.error]
           tagged == loadReadmeTags(loaded, readmeTags, 1)
       IN  IF tagged.error # "" THEN tagged ELSE [tagged EXCEPT !.initialized = TRUE]

----------------------------------------------------------------------------
\* Rest call steps.

Placeholder(name) == "$(" \o name \o ")"

\* The scopes of line 679, the undefined ones left out.
stepScopes(step, ctx) ==
  <<step>> \o (IF ctx.scenario.defined THEN <<ctx.scenario>> ELSE <<>>) \o <<ctx.scenarioDef>>

\* getVariable, lines 674-705, over the given scopes; NoVariable is undefined.
getVariable(name, scopeList, ctx) ==
  LET found == {i \in 1..Len(scopeList) : scopeList[i].variables[name] # NoVariable}
  IN  IF found # {}
      THEN scopeList[CHOOSE i \in found : \A j \in found : i <= j].variables[name]
      ELSE IF \/ \E i \in 1..Len(scopeList) : Includes(scopeList[i].requiredVariables, name)
              \/ /\ ctx.scenarioDef.scope = "ResourceGroup"
                 /\ name \in {"subscriptionId", "resourceGroupName", "location"}
              \/ /\ ctx.scenarioDef.scope = "Subscription"
                 /\ name = "subscriptionId"
           THEN [NoVariable EXCEPT !.type = "string", !.value = Placeholder(name)]
           ELSE NoVariable

\* requireVariable, lines 707-716.
requireVariable(ctx, name) ==
  IF ctx.scenarioDef.scope = "ResourceGroup" /\ name = "resourceGroupName"
  THEN ctx
  ELSE IF ctx.scenario.defined
       THEN IF Includes(ctx.scenario.requiredVariables, name) THEN ctx
            ELSE [ctx EXCEPT !.scenario.requiredVariables = Append(@, name)]
       ELSE IF Includes(ctx.scenarioDef.requiredVariables, name) THEN ctx
            ELSE [ctx EXCEPT !.scenarioDef.requiredVariables = Append(@, name)]

\* The body of the loop of lines 739-764 for the raw variable of key name; the
\* value jsonPatchApply leaves is "patched".
patchVariable(acc, name, value, ctx) ==
  IF value.js = "string" \/ value.type \notin ContainerTypes \/ value.patches = Undefined
  THEN acc
  ELSE LET variable == getVariable(name, Tail(stepScopes(acc.step, ctx)), ctx)
       IN  IF variable = NoVariable
           THEN [acc EXCEPT !.error = "Variable not found"]
           ELSE [acc EXCEPT !.step.variables[name] = [variable EXCEPT !.value = "patched"]]

RECURSIVE patchVariables(_, _, _, _)
patchVariables(acc, raw, i, ctx) ==
  IF i > Len(raw) \/ acc.error # "" THEN acc
  ELSE patchVariables(patchVariable(acc, VarKeys[i], raw[i], ctx), raw, i + 1, ctx)

\* A callback that lets the literal of the raw step override the pinned version.
compileParameterLiteral(acc, param, rawStep, index) ==
  IF Truthy(rawStep.parameters[param.name])
  THEN [acc EXCEPT !.step.parameters[param.name] = rawStep.parameters[param.name]]
  ELSE [acc EXCEPT !.step.parameters[param.name] =
                     JsString(index.apiVersionsMap[acc.step.operationId])]

\* The callback of lines 767-788 for one parameter of the operation; index is the
\* index the operation was looked up in.
compileParameter(acc, param, rawStep, index) ==
  IF param.name = "api-version"
  THEN [acc EXCEPT !.step.parameters["api-version"] =
                     JsString(index.apiVersionsMap[acc.step.operationId])]
  ELSE IF Truthy(rawStep.parameters[param.name])
       THEN [acc EXCEPT !.step.parameters[param.name] = rawStep.parameters[param.name]]
       ELSE LET v == getVariable(param.name, stepScopes(acc.step, acc.ctx), acc.ctx)
            IN  IF v # NoVariable
                THEN IF param.in = "body"
                     THEN [acc EXCEPT !.step.parameters[param.name] = JsString(v.value)]
                     ELSE [acc EXCEPT !.step.parameters[param.name] =
                                        JsString(Placeholder(param.name))]
                ELSE IF param.in = "path" \/ param.required
                     THEN [acc EXCEPT !.step.parameters[param.name] =
                                        JsString(Placeholder(param.name)),
                                      !.ctx = requireVariable(acc.ctx, param.name)]
                     ELSE acc

RECURSIVE compileParameters(_, _, _, _, _)
compileParameters(acc, params, i, rawStep, index) ==
  IF i > Len(params) THEN acc
  ELSE compileParameters(compileParameter(acc, params[i], rawStep, index), params, i + 1,
                         rawStep, index)

\* The operation branch of loadStepRestCall, lines 718-790.
loadOperationStep(loader, rawStep, step0, ctx) ==
  LET step == [step0 EXCEPT !.operationId = rawStep.operationId,
                            !.step = IF rawStep.step = Undefined \/ rawStep.step = ""
                                     THEN @ \o "_" \o rawStep.operationId ELSE @,
                            !.externalReference = (rawStep.readmeTag # Undefined)]
      index == IF rawStep.readmeTag # Undefined THEN loader.additionalMap[rawStep.readmeTag]
               ELSE loader.main
      operation == IF index.defined THEN index.operationsMap[step.operationId]
                   ELSE NoOperation
      patched == patchVariables([step |-> step, ctx |-> ctx, error |-> ""],
                                rawStep.variables, 1, ctx)
  IN  IF ~operation.defined
      THEN [step |-> step, ctx |-> ctx, error |-> "Operation not found"]
      ELSE IF patched.error # "" THEN patched
           ELSE compileParameters(patched, operation.parameters, 1, rawStep, index)

\* The example branch of loadStepRestCall, lines 792-850; rawStep.example is the
\* content of the example file.  The request and response patches and the
\* template generator's parameter convention stay outside the state.
loadExampleStep(loader, rawStep, step0, ctx) ==
  LET path == "dir/" \o rawStep.exampleFile
      opMap == IF path \in ExamplePaths THEN loader.exampleToOperation[path] ELSE <<>>
      embedded == rawStep.example.operationId
      error == IF embedded # Undefined THEN ""
               ELSE IF opMap = <<>> THEN "Example file is not referenced by any operation"
               ELSE IF Len(opMap) > 1 THEN "Example file is referenced by multiple operation"
               ELSE ""
      operationId == IF embedded # Undefined THEN embedded
                     ELSE IF error = "" THEN opMap[1].operationId ELSE Undefined
      step == [step0 EXCEPT !.exampleFile = rawStep.exampleFile,
                            !.operationId = IF operationId = Undefined THEN @ ELSE operationId]
  IN  IF error # ""
      THEN [step |-> step, ctx |-> ctx, error |-> error]
      ELSE IF operationId \notin OperationIds \/ ~loader.main.operationsMap[operationId].defined
           THEN [step |-> step, ctx |-> ctx, error |-> "Operation not found"]
           ELSE [step |-> [step EXCEPT
                             !.parameters =
                               IF Truthy(rawStep.example.parameters["api-version"])
                               THEN [rawStep.example.parameters EXCEPT !["api-version"] =
                                       JsString(loader.main.apiVersionsMap[operationId])]
                               ELSE rawStep.example.parameters],
                 ctx |-> ctx, error |-> ""]

\* loadStepRestCall, lines 652-852.
loadStepRestCall(loader, rawStep, ctx) ==
  LET v == convertVariables(rawStep.variables)
      step == [NoStep EXCEPT !.type = "restCall",
                             !.step = IF rawStep.step # Undefined THEN rawStep.step
                                      ELSE (IF ctx.scenarioIndex # NoIndex
                                            THEN ToString(ctx.scenarioIndex) ELSE ctx.stage)
                                             \o "_" \o ToString(ctx.stepIndex),
                             !.operationId = "",
                             !.outputVariables = rawStep.outputVariables,
                             !.variables = v.variables,
                             !.requiredVariables = v.requiredVariables,
                             !.secretVariables = v.secretVariables]
      tracked == [ctx EXCEPT !.stepTracking = @ \cup {step.step}]
  IN  IF rawStep.step # Undefined /\ rawStep.step \in ctx.stepTracking
      THEN [step |-> NoStep, ctx |-> ctx, error |-> "Duplicated step name"]
      ELSE IF v.error # ""
           THEN [step |-> NoStep, ctx |-> ctx, error |-> v.error]
           ELSE IF "operationId" \in rawStep.keys
                THEN loadOperationStep(loader, rawStep, step, tracked)
                ELSE loadExampleStep(loader, rawStep, step, tracked)

----------------------------------------------------------------------------
\* Template steps, output variables and loadStep.

\* The scope of lines 633-637, 712 and 976: the scenario once there is one.
variableScope(ctx) == IF ctx.scenario.defined THEN ctx.scenario ELSE ctx.scenarioDef

setVariableScope(ctx, scope) ==
  IF ctx.scenario.defined THEN [ctx EXCEPT !.scenario = scope]
  ELSE [ctx EXCEPT !.scenarioDef = scope]

SecureTypes == {"secureString", "securestring", "secureObject"}

\* The loop body of declareOutputVariables that replaces a variable already there.
declareOutputVariableOverwrite(scope, key, val) ==
  [scope EXCEPT !.variables[key] =
                  [NoVariable EXCEPT !.type = IF val.type # Undefined THEN val.type
                                              ELSE "string"],
                !.secretVariables = IF val.type \in SecureTypes THEN Append(@, key) ELSE @]

\* The loop body of declareOutputVariables, lines 1075-1082.
declareOutputVariable(scope, key, val) ==
  [scope EXCEPT !.variables[key] =
                  IF @ = NoVariable
                  THEN [NoVariable EXCEPT !.type = IF val.type # Undefined THEN val.type
                                                   ELSE "string"]
                  ELSE @,
                !.secretVariables = IF val.type \in SecureTypes THEN Append(@, key) ELSE @]

\* declareOutputVariables, lines 1070-1084, from the i-th entry of the map on;
\* the map is the sequence of its entries, each a name and a type.
RECURSIVE declareOutputVariables(_, _, _)
declareOutputVariables(outputVariables, scope, i) ==
  IF i > Len(outputVariables) THEN scope
  ELSE declareOutputVariables(outputVariables,
                              declareOutputVariable(scope, outputVariables[i].name,
                                                    outputVariables[i]),
                              i + 1)

\* The loop body of lines 984-1003 for one parameter of the template.
templateParameter(acc, param) ==
  LET scope == variableScope(acc.ctx)
  IN  IF \/ param.defaultValue # Undefined
         \/ acc.step.variables[param.name] # NoVariable
         \/ scope.variables[param.name] # NoVariable
         \/ acc.ctx.scenarioDef.variables[param.name] # NoVariable
      THEN acc
      ELSE IF /\ param.type \notin {"string", "securestring"}
              /\ ~Includes(scope.requiredVariables, param.name)
           THEN [acc EXCEPT !.error = "Only string and securestring type is supported in arm template params"]
           ELSE [acc EXCEPT !.ctx = setVariableScope(acc.ctx,
                                      [scope EXCEPT !.requiredVariables = Append(@, param.name)])]

RECURSIVE templateParameters(_, _, _)
templateParameters(acc, params, i) ==
  IF i > Len(params) \/ acc.error # "" THEN acc
  ELSE templateParameters(templateParameter(acc, params[i]), params, i + 1)

\* loadStepArmTemplate, lines 963-1017; rawStep.template is the content of the
\* template file.  The template generator's parameter convention stays outside
\* the state.
loadStepArmTemplate(rawStep, ctx) ==
  LET v == convertVariables(rawStep.variables)
      step == newArmStep(rawStep, ctx, "ArmTemplate", rawStep.armTemplate)
      acc == templateParameters([step |-> step, ctx |-> ctx, error |-> ""],
                                rawStep.template.parameters, 1)
  IN  IF v.error # ""
      THEN [step |-> NoStep, ctx |-> ctx, error |-> v.error]
      ELSE IF acc.error # "" THEN acc
           ELSE [acc EXCEPT !.ctx = setVariableScope(acc.ctx,
                                      declareOutputVariables(rawStep.template.outputs,
                                                             variableScope(acc.ctx), 1))]

\* The rest of loadStep once the step's loader has returned r or thrown, lines
\* 628-641.
stepLoaded(r) ==
  IF r.error # ""
  THEN [r EXCEPT !.error = "Failed to load step: " \o r.error]
  ELSE [r EXCEPT !.ctx = [setVariableScope(r.ctx,
                            declareOutputVariables(r.step.outputVariables,
                                                   variableScope(r.ctx), 1))
                          EXCEPT !.stepIndex = @ + 1]]

\* loadStep, lines 615-642.
loadStep(loader, rawStep, ctx) ==
  stepLoaded(IF rawStep.keys \cap {"operationId", "exampleFile"} # {}
             THEN loadStepRestCall(loader, rawStep, ctx)
             ELSE IF "armTemplate" \in rawStep.keys
                  THEN loadStepArmTemplate(rawStep, ctx)
                  ELSE IF "armDeploymentScript" \in rawStep.keys
                       THEN loadStepArmDeploymentScript(rawStep, ctx)
                       ELSE [step |-> NoStep, ctx |-> ctx, error |-> "Invalid step"])

----------------------------------------------------------------------------
\* load and loadScenario.

\* Set.add followed by the spread of lines 540 and 591-593: insertion order, no
\* name twice.
addOnce(list, name) == IF Includes(list, name) THEN list ELSE Append(list, name)

RECURSIVE addAllOnce(_, _)
addAllOnce(list, names) ==
  IF names = <<>> THEN list ELSE addAllOnce(addOnce(list, names[1]), Tail(names))

\* Lines 524-541 without line 538.
newScenarioDefNoLocation(rawScope, rawVariables) ==
  LET v == convertVariables(rawVariables)
      scope == IF rawScope = Undefined THEN "ResourceGroup" ELSE rawScope
  IN  [def |-> [EmptyDef EXCEPT
                  !.scope = scope,
                  !.variables = v.variables,
                  !.secretVariables = v.secretVariables,
                  !.requiredVariables =
                    IF scope \in {"ResourceGroup", "Subscription"}
                    THEN addOnce(addAllOnce(<<>>, v.requiredVariables), "subscriptionId")
                    ELSE v.requiredVariables],
       error |-> v.error]

\* The scenario definition of lines 524-541 from the raw definition's scope and
\* variables.
newScenarioDef(rawScope, rawVariables) ==
  LET v == convertVariables(rawVariables)
      scope == IF rawScope = Undefined THEN "ResourceGroup" ELSE rawScope
      withSubscription == addOnce(addAllOnce(<<>>, v.requiredVariables), "subscriptionId")
  IN  [def |-> [EmptyDef EXCEPT
                  !.scope = scope,
                  !.variables = v.variables,
                  !.secretVariables = v.secretVariables,
                  !.requiredVariables =
                    IF scope \in {"ResourceGroup", "Subscription"}
                    THEN IF scope = "ResourceGroup" THEN addOnce(withSubscription, "location")
                         ELSE withSubscription
                    ELSE v.requiredVariables],
       error |-> v.error]

\* Lines 586-605 with the scenario's own required variables only.
newScenarioOwnRequired(rawScenario, ctx) ==
  LET v == convertVariables(rawScenario.variables)
  IN  [ctx |-> [ctx EXCEPT
                  !.stage = "scenario",
                  !.scenario =
                    [defined |-> TRUE,
                     scenario |-> IF rawScenario.scenario # Undefined THEN rawScenario.scenario
                                  ELSE "scenario_" \o ToString(ctx.scenarioIndex),
                     shareScope |-> IF rawScenario.shareScope = Undefined THEN TRUE
                                    ELSE rawScenario.shareScope = "true",
                     steps |-> <<>>,
                     variables |-> v.variables,
                     requiredVariables |-> v.requiredVariables,
                     secretVariables |-> v.secretVariables],
                  !.stepIndex = 0],
       error |-> v.error]

\* loadScenario up to its loop, lines 586-605; shareScope of the raw scenario is
\* Undefined, "true" or "false".
newScenario(rawScenario, ctx) ==
  LET v == convertVariables(rawScenario.variables)
  IN  [ctx |-> [ctx EXCEPT
                  !.stage = "scenario",
                  !.scenario =
                    [defined |-> TRUE,
                     scenario |-> IF rawScenario.scenario # Undefined THEN rawScenario.scenario
                                  ELSE "scenario_" \o ToString(ctx.scenarioIndex),
                     shareScope |-> IF rawScenario.shareScope = Undefined THEN TRUE
                                    ELSE rawScenario.shareScope = "true",
                     steps |-> <<>>,
                     variables |-> v.variables,
                     requiredVariables |->
                       addAllOnce(addAllOnce(<<>>, ctx.scenarioDef.requiredVariables),
                                  v.requiredVariables),
                     secretVariables |-> v.secretVariables],
                  !.stepIndex = 0],
       error |-> v.error]

----------------------------------------------------------------------------
\* The runner while the loader is at work: constructed, no call made.
runnerVars == <<def, envOk, skipCleanUp, overlap, scopeTracking, scopes, randCount, call, pending, ex>>

RunnerIdle ==
  /\ def = [scope |-> "ResourceGroup", nPrepare |-> 0, nCleanUp |-> 0]
  /\ envOk = TRUE
  /\ skipCleanUp = FALSE
  /\ overlap = FALSE
  /\ scopeTracking = [n \in ScopeNames |-> 0]
  /\ scopes = <<>>
  /\ randCount = 0
  /\ call = [c \in Calls |-> IdleCall]
  /\ pending = {}
  /\ ex = NotExecuting

Min(a, b) == IF a < b THEN a ELSE b

\* The raw variables maps of at most MaxVars entries.
RawVariableMaps == UNION {[1..n -> RawVariables] : n \in 0..Min(MaxVars, Len(VarKeys))}

\* convertVariables applied to one raw map.
ConvertInit ==
  /\ RunnerIdle
  /\ ld \in [pc : {"called"}, fn : {"convertVariables"}, raw : RawVariableMaps,
             result : {EmptyScope}]

convertVariablesReturns ==
  /\ ld.pc = "called" /\ ld.fn = "convertVariables"
  /\ ld' = [ld EXCEPT !.pc = "returned", !.result = convertVariables(ld.raw)]
  /\ UNCHANGED runnerVars

ConvertNext == convertVariablesReturns

ConvertSpec == ConvertInit /\ [][ConvertNext]_vars

\* A declaration convertVariables refuses: it has no value, and is neither of a
\* string type nor a container with patches.
Refused(val) ==
  /\ val.js = "object" /\ val.value = Undefined
  /\ val.type \notin StringTypes
  /\ ~(val.type \in ContainerTypes /\ val.patches # Undefined)

ConvertReturned == ld.pc = "returned" /\ ld.fn = "convertVariables"

\* C19: convertVariables maps a string shorthand to {type string, value}, passes a
\* typed declaration through unchanged, lists a string or secureString in
\* requiredVariables exactly when it has neither value nor prefix, accepts a container
\* with patches and no value, and fails on every other declaration without a value
\* (and on nothing else).
C19_ConvertVariables ==
  ConvertReturned =>
    LET raw == ld.raw
        r == ld.result
    IN  /\ r.error # "" <=> \E i \in 1..Len(raw) : Refused(raw[i])
        /\ r.error = "" =>
             /\ \A i \in 1..Len(raw) :
                  LET val == raw[i]
                      v == r.variables[VarKeys[i]]
                  IN  /\ val.js = "string" =>
                           /\ v.type = "string" /\ v.value = val.value
                           /\ v.prefix = Undefined /\ v.patches = Undefined
                      /\ val.js = "object" =>
                           /\ v.type = val.type /\ v.value = val.value
                           /\ v.prefix = val.prefix /\ v.patches = val.patches
                      /\ Includes(r.requiredVariables, VarKeys[i]) <=>
                           /\ val.js = "object" /\ val.type \in StringTypes
                           /\ val.value = Undefined /\ val.prefix = Undefined
             /\ \A k \in VarNames :
                  (\A i \in 1..Len(raw) : VarKeys[i] # k) =>
                    /\ r.variables[k] = NoVariable
                    /\ ~Includes(r.requiredVariables, k)

\* A map with a container that has patches and no value, and a string that has a
\* prefix and no value, was accepted.
C19_Witness ==
  /\ ConvertReturned /\ ld.result.error = ""
  /\ \E i, j \in 1..Len(ld.raw) :
       /\ ld.raw[i].type \in ContainerTypes /\ ld.raw[i].value = Undefined
       /\ ld.raw[j].type \in StringTypes /\ ld.raw[j].value = Undefined
       /\ ld.raw[j].prefix # Undefined

----------------------------------------------------------------------------
\* Script steps: loadStepArmDeploymentScript applied to one raw step.

MaxPieces == 3      \* pieces one environment variable's value is made of

ValuePieces ==
  {<<"$", "(", "x", ")">>, <<"$", "(", "y", ")">>, <<"$", "(">>, <<"x">>, <<"1">>, <<")">>,
   <<"$">>}

RECURSIVE Flatten(_)
Flatten(s) == IF s = <<>> THEN <<>> ELSE s[1] \o Flatten(Tail(s))

EnvironmentValues == {Flatten(p) : p \in UNION {[1..n -> ValuePieces] : n \in 0..MaxPieces}}

SecureStringVariable ==
  [js |-> "object", type |-> "secureString", value |-> "v", prefix |-> Undefined,
   patches |-> Undefined]

\* A scenario as loadScenario creates it (lines 596-603) with the given secrets.
ScenarioWithSecrets(secrets) ==
  [NoScenario EXCEPT !.defined = TRUE, !.scenario = "scenario_0", !.shareScope = TRUE,
                     !.secretVariables = secrets]

ScriptInit ==
  /\ RunnerIdle
  /\ \E value \in EnvironmentValues, variables \in {<<>>, <<SecureStringVariable>>},
        scenario \in {NoScenario, ScenarioWithSecrets(<<>>), ScenarioWithSecrets(<<"y">>)},
        secrets \in {<<>>, <<"y">>}, hasEnv \in BOOLEAN :
       /\ hasEnv \/ value = <<>>
       /\ ld = [pc |-> "called", fn |-> "loadStepArmDeploymentScript",
                rawStep |-> [NoRawStep EXCEPT
                               !.keys = {"armDeploymentScript"},
                               !.armDeploymentScript = "script.ps1",
                               !.variables = variables,
                               !.environmentVariables =
                                 IF hasEnv THEN <<[name |-> "E", value |-> value]>>
                                 ELSE Undefined],
                ctx |-> [EmptyCtx EXCEPT !.scenario = scenario,
                                         !.scenarioDef.secretVariables = secrets,
                                         !.scenarioIndex = IF scenario.defined THEN 0
                                                           ELSE NoIndex,
                                         !.stage = IF scenario.defined THEN Undefined
                                                   ELSE "prepare"],
                result |-> [step |-> NoStep, ctx |-> EmptyCtx, error |-> ""]]

loadStepArmDeploymentScriptReturns ==
  /\ ld.pc = "called"
  /\ ld.fn = "loadStepArmDeploymentScript"
  /\ ld' = [ld EXCEPT !.pc = "returned",
                      !.result = loadStepArmDeploymentScript(ld.rawStep, ld.ctx)]
  /\ UNCHANGED runnerVars

ScriptNext == loadStepArmDeploymentScriptReturns

ScriptSpec == ScriptInit /\ [][ScriptNext]_vars

ScriptReturned == ld.pc = "returned" /\ ld.fn = "loadStepArmDeploymentScript"

\* s contains a $(name) token whose name is one of names.
HasSecretToken(s, names) ==
  \E i, j \in 1..Len(s) :
    /\ j >= i + 3
    /\ s[i] = "$" /\ s[i + 1] = "(" /\ s[j] = ")"
    /\ s[i + 2] \in IdentifierStart
    /\ \A k \in (i + 3)..(j - 1) : s[k] \in IdentifierPart
    /\ Includes(names, Join(SubSeq(s, i + 2, j - 1)))

\* The secret names in force when the step of ld compiles.
SecretsAtCompileTime ==
  ld.result.step.secretVariables
    \o (IF ld.ctx.scenario.defined THEN ld.ctx.scenario.secretVariables ELSE <<>>)
    \o ld.ctx.scenarioDef.secretVariables

ScriptEntries ==
  IF ld.rawStep.environmentVariables = Undefined THEN <<>> ELSE ld.rawStep.environmentVariables

\* C16: a script step's environment-variable entry is emitted with secureValue
\* exactly when its value contains a $(name) token whose name is in the
\* secretVariables of the step, the scenario or the definition at compile time;
\* otherwise it is emitted with the plain value.
C16_SecureEnvironmentVariables ==
  ScriptReturned =>
    /\ ld.result.error = ""
    /\ Len(ld.result.step.environmentVariables) = Len(ScriptEntries)
    /\ \A i \in 1..Len(ScriptEntries) :
         LET out == ld.result.step.environmentVariables[i]
         IN  /\ out.name = ScriptEntries[i].name
             /\ out.value = ScriptEntries[i].value
             /\ out.secure <=> HasSecretToken(ScriptEntries[i].value, SecretsAtCompileTime)

\* An entry emitted secure although the first token of its value names no secret:
\* a later token does.
C16_Witness ==
  /\ ScriptReturned
  /\ Len(ScriptEntries) = 1
  /\ ld.result.step.environmentVariables[1].secure
  /\ regexExec(ScriptEntries[1].value, 1).found
  /\ ~Includes(SecretsAtCompileTime, regexExec(ScriptEntries[1].value, 1).name)


----------------------------------------------------------------------------
\* Single steps: initialize, then loadStep applied to one raw step in a context
\* that load() can have built.

MaxLoads == 2       \* load() calls on one loader instance

MaxSpecs == 2       \* swagger files of opts.swaggerFilePaths
MaxOutputs == 2     \* entries of one step's outputVariables

StringVariable == [NoVariable EXCEPT !.type = "string", !.value = "v"]

\* The context of a step of the first scenario (inScenario) or of the prepare
\* steps of a definition of the given scope kind; declared and required say which
\* of the scenario and the definition declares variable x with a value, and which
\* one first required it.
StepCtx(scope, inScenario, declared, required) ==
  LET defRequired == newScenarioDef(scope, <<>>).def.requiredVariables
                       \o (IF required = "def" THEN <<"x">> ELSE <<>>)
  IN  [EmptyCtx EXCEPT
         !.scenarioDef.scope = scope,
         !.scenarioDef.requiredVariables = defRequired,
         !.scenarioDef.variables["x"] = IF declared = "def" THEN StringVariable ELSE @,
         !.scenario = IF inScenario
                      THEN [ScenarioWithSecrets(<<>>) EXCEPT
                              !.requiredVariables =
                                defRequired \o (IF required = "scenario" THEN <<"x">> ELSE <<>>),
                              !.variables["x"] = IF declared = "scenario" THEN StringVariable
                                                 ELSE @]
                      ELSE NoScenario,
         !.scenarioIndex = IF inScenario THEN 0 ELSE NoIndex,
         !.stage = IF inScenario THEN "scenario" ELSE "prepare"]

ApiVersionParameter == [name |-> "api-version", in |-> "query", required |-> TRUE]

SwaggerSpec(version, operationId, parameters, examples) ==
  [version |-> version,
   operations |-> <<[operationId |-> operationId, parameters |-> parameters,
                     examples |-> examples]>>]

\* Swagger files whose operations refer to example files.
ExampleSwaggers ==
  {SwaggerSpec(version, operationId, <<ApiVersionParameter>>, examples) :
     version \in {"v1", "v2"}, operationId \in OperationIds,
     examples \in {<<>>, <<[name |-> "e1", ref |-> "dir/a.json"]>>,
                   <<[name |-> "e1", ref |-> "dir/a.json"],
                     [name |-> "e2", ref |-> "dir/a.json"]>>}}

\* Example steps over every list of swagger files.
FixtureInputs ==
  [swaggers : UNION {[1..n -> ExampleSwaggers] : n \in 0..MaxSpecs},
   readmeTags : {<<>>},
   rawStep : {[NoRawStep EXCEPT !.keys = {"exampleFile"}, !.exampleFile = file,
                                !.example.operationId = embedded,
                                !.example.parameters["api-version"] = version] :
                file \in {"a.json", "b.json"}, embedded \in {Undefined, "Op_A"},
                version \in {JsUndefined, JsString("v0")}},
   ctx : {StepCtx("ResourceGroup", TRUE, "none", "none")}]

\* Operation steps on operation Op_A, pinned to v1 in the main index and to v2 in
\* the index of the readme tag, with an optional api-version parameter and one
\* other parameter.
OperationInputs ==
  {[swaggers |-> <<SwaggerSpec("v1", "Op_A", parameters, <<>>)>>,
    readmeTags |-> <<[name |-> "tag",
                      inputFiles |-> <<SwaggerSpec("v2", "Op_A", parameters, <<>>)>>]>>,
    rawStep |-> [NoRawStep EXCEPT !.keys = {"operationId"}, !.operationId = "Op_A",
                                  !.readmeTag = readmeTag,
                                  !.variables = variables,
                                  !.parameters["api-version"] = version,
                                  !.parameters[parameters[Len(parameters)].name] = literal],
    ctx |-> ctx] :
     parameters \in {version \o <<[name |-> name, in |-> in, required |-> required]>> :
                       version \in {<<>>, <<ApiVersionParameter>>},
                       name \in {"x", "resourceGroupName"},
                       in \in {"path", "query", "body"}, required \in BOOLEAN},
     readmeTag \in {Undefined, "tag"},
     variables \in {<<>>, <<[js |-> "string", type |-> Undefined, value |-> "v",
                             prefix |-> Undefined, patches |-> Undefined]>>},
     version \in {JsUndefined, JsString("v0")},
     literal \in {JsUndefined, JsString("lit"), JsString(""), [t |-> "number", v |-> "0"]},
     ctx \in {StepCtx(scope, inScenario, declared, required) :
                scope \in {"ResourceGroup", "Subscription"}, inScenario \in BOOLEAN,
                declared \in {"none", "scenario", "def"},
                required \in {"none", "scenario", "def"}}}

\* Maps of output variables: no name twice.
OutputMaps ==
  {m \in UNION {[1..n -> [name : {"x", "y"}, type : {Undefined, "secureString", "bool"}]] :
                  n \in 0..MaxOutputs} :
     \A i, j \in 1..Len(m) : m[i].name = m[j].name => i = j}

\* Steps of every kind that declare output variables.
OutputInputs ==
  [swaggers : {<<SwaggerSpec("v1", "Op_A", <<ApiVersionParameter>>, <<>>)>>},
   readmeTags : {<<>>},
   rawStep : {[step EXCEPT !.outputVariables = outputVariables] :
                step \in {[NoRawStep EXCEPT !.keys = {"operationId"}, !.operationId = "Op_A"],
                          [NoRawStep EXCEPT !.keys = {"armDeploymentScript"},
                                            !.armDeploymentScript = "script.sh"]}
                          \cup {[NoRawStep EXCEPT !.keys = {"armTemplate"},
                                                  !.armTemplate = "template.json",
                                                  !.template.outputs = outputs] :
                                  outputs \in {<<>>, <<[name |-> "y", type |-> "securestring"]>>,
                                               <<[name |-> "x", type |-> "int"]>>}},
                outputVariables \in OutputMaps},
   ctx : {StepCtx("ResourceGroup", inScenario, declared, "none") :
            inScenario \in BOOLEAN, declared \in {"none", "scenario", "def"}}]

StepInit ==
  /\ RunnerIdle
  /\ \E input \in FixtureInputs \cup OperationInputs \cup OutputInputs :
       /\ input.ctx.scenario.defined
            \/ \A k \in VarNames : input.ctx.scenario.variables[k] = NoVariable
       /\ ld = [pc |-> "constructed", fn |-> "loadStep", swaggers |-> input.swaggers,
                readmeTags |-> input.readmeTags, rawStep |-> input.rawStep, ctx |-> input.ctx,
                loader |-> NewLoader, loads |-> 1,
                result |-> [step |-> NoStep, ctx |-> EmptyCtx, error |-> ""]]

\* load() up to line 522.
initializeReturns ==
  /\ ld.pc = "constructed"
  /\ LET loader == initialize(ld.loader, ld.swaggers, ld.readmeTags)
     IN  ld' = [ld EXCEPT !.loader = loader,
                          !.pc = IF loader.error # "" THEN "failed" ELSE "initialized"]
  /\ UNCHANGED runnerVars

loadStepReturns ==
  /\ ld.pc = "initialized"
  /\ ld.fn = "loadStep"
  /\ ld' = [ld EXCEPT !.pc = "returned", !.result = loadStep(ld.loader, ld.rawStep, ld.ctx)]
  /\ UNCHANGED runnerVars

\* load() is called on the same loader instance again, after the load before it
\* has returned or failed (line 519).
loadAgain ==
  /\ ld.pc \in {"returned", "failed"}
  /\ ld.fn = "loadStep"
  /\ ld.loads < MaxLoads
  /\ ld' = [ld EXCEPT !.pc = "constructed", !.loads = @ + 1,
                      !.result = [step |-> NoStep, ctx |-> EmptyCtx, error |-> ""]]
  /\ UNCHANGED runnerVars

StepNext == initializeReturns \/ loadStepReturns \/ loadAgain

StepSpec == StepInit /\ [][StepNext]_vars


StepReturned == ld.pc = "returned" /\ ld.fn = "loadStep"

\* The operations of the swagger files of ld that refer to the example file.
ReferringOperations(path) ==
  {ld.swaggers[i].operations[j].operationId :
     <<i, j>> \in {<<i, j>> \in (1..Len(ld.swaggers)) \X (1..1) :
                    \E k \in 1..Len(ld.swaggers[i].operations[j].examples) :
                      ld.swaggers[i].operations[j].examples[k].ref = path}}

\* C15: for a fixture step whose fixture embeds no operation id, the load aborts
\* with an ambiguity error when the fixture path maps to more than one operation,
\* with a not-found error when it maps to none, and binds the step to the
\* operation when it maps to exactly one.
C15_FixtureOperation ==
  (StepReturned /\ "exampleFile" \in ld.rawStep.keys /\ ld.rawStep.example.operationId = Undefined)
    => LET ops == ReferringOperations("dir/" \o ld.rawStep.exampleFile)
       IN  /\ Cardinality(ops) > 1 =>
                ld.result.error
                  = "Failed to load step: Example file is referenced by multiple operation"
           /\ Cardinality(ops) = 0 =>
                ld.result.error
                  = "Failed to load step: Example file is not referenced by any operation"
           /\ Cardinality(ops) = 1 =>
                ld.result.error = "" /\ ld.result.step.operationId \in ops

\* A fixture step bound to the one operation that refers to its file through two
\* examples, and the loader knows another operation too.
C15_Witness ==
  /\ StepReturned
  /\ "exampleFile" \in ld.rawStep.keys
  /\ ld.rawStep.example.operationId = Undefined
  /\ ld.result.error = ""
  /\ ld.result.step.operationId = "Op_B"
  /\ Len(ld.loader.exampleToOperation["dir/a.json"]) = 1
  /\ ld.loader.exampleToOperation["dir/a.json"][1].exampleName = "e2"
  /\ ld.loader.main.operationsMap["Op_A"].defined

\* The operation of the step of ld as the swagger files declare it.
StepSwagger ==
  IF ld.rawStep.readmeTag = Undefined THEN ld.swaggers[1]
  ELSE ld.readmeTags[1].inputFiles[1]

OperationStepCompiled ==
  StepReturned /\ "operationId" \in ld.rawStep.keys /\ ld.result.error = ""

\* C17: when the operation of an operation step declares an api-version parameter,
\* the compiled parameters bind api-version to the version pinned for the operation
\* in the index it was looked up in, whatever the raw step supplied.
C17_ApiVersionPinned ==
  (OperationStepCompiled
     /\ \E i \in 1..Len(StepSwagger.operations[1].parameters) :
          StepSwagger.operations[1].parameters[i].name = "api-version")
    => ld.result.step.parameters["api-version"] = JsString(StepSwagger.version)

\* A step that names the readme tag and supplies its own api-version.
C17_Witness ==
  /\ OperationStepCompiled
  /\ ld.rawStep.readmeTag = "tag"
  /\ ld.rawStep.parameters["api-version"] = JsString("v0")
  /\ ld.result.step.parameters["api-version"] = JsString("v2")

\* The parameter other than api-version of the operation of the step of ld.
StepParameter ==
  StepSwagger.operations[1].parameters[Len(StepSwagger.operations[1].parameters)]

\* A variable of the name exists in the step, scenario or definition scope.
VariableExists(name) ==
  \/ ld.result.step.variables[name] # NoVariable
  \/ ld.ctx.scenario.variables[name] # NoVariable
  \/ ld.ctx.scenarioDef.variables[name] # NoVariable

\* C18: for a declared parameter other than api-version, a literal of the raw step,
\* whatever its value, is the compiled value; otherwise, with a variable of that
\* name in the step, scenario or definition scope, the compiled value is $(name);
\* otherwise a path or required parameter compiles to $(name) and the name is added
\* to the owning scope's requiredVariables; otherwise the parameter is unbound.
C18_ParameterBinding ==
  (OperationStepCompiled /\ StepParameter.name # "api-version")
    => LET name == StepParameter.name
           literal == ld.rawStep.parameters[name]
           compiled == ld.result.step.parameters[name]
       IN  IF literal # JsUndefined
           THEN compiled = literal
           ELSE IF VariableExists(name)
                THEN compiled = JsString(Placeholder(name))
                ELSE IF StepParameter.in = "path" \/ StepParameter.required
                     THEN /\ compiled = JsString(Placeholder(name))
                          /\ Includes(variableScope(ld.result.ctx).requiredVariables, name)
                     ELSE compiled = JsUndefined

\* The output declarations of the step of ld in the order the loader handles them:
\* the outputs of the template (line 1008), then outputVariables (lines 632-638).
DeclaredOutputs == ld.rawStep.template.outputs \o ld.rawStep.outputVariables

\* C20: after a step is compiled the owning scope (the scenario when the step is
\* inside one, else the definition) has a variable for each output variable the
\* step declares: one already there is unchanged, a missing one is created with the
\* stated type or string, and a secure-typed declaration puts the name in the
\* scope's secretVariables.
C20_OutputVariablesDeclared ==
  (StepReturned /\ ld.result.error = "")
    => LET before == variableScope(ld.ctx)
           after == variableScope(ld.result.ctx)
       IN  /\ \A i \in 1..Len(DeclaredOutputs) :
                LET out == DeclaredOutputs[i]
                    first == \A j \in 1..(i - 1) : DeclaredOutputs[j].name # out.name
                IN  /\ after.variables[out.name] # NoVariable
                    /\ before.variables[out.name] # NoVariable
                         => after.variables[out.name] = before.variables[out.name]
                    /\ (before.variables[out.name] = NoVariable /\ first)
                         => after.variables[out.name]
                              = [NoVariable EXCEPT !.type = IF out.type = Undefined
                                                            THEN "string" ELSE out.type]
                    /\ out.type \in SecureTypes => Includes(after.secretVariables, out.name)
           /\ ld.ctx.scenario.defined
                => ld.result.ctx.scenarioDef.variables = ld.ctx.scenarioDef.variables

\* A step inside a scenario that declares the scenario's variable x as a secure
\* output and the new output y.
C20_Witness ==
  /\ StepReturned
  /\ ld.result.error = ""
  /\ ld.ctx.scenario.defined
  /\ ld.ctx.scenario.variables["x"] = StringVariable
  /\ ld.rawStep.outputVariables
       = <<[name |-> "x", type |-> "secureString"], [name |-> "y", type |-> Undefined]>>
  /\ ld.result.ctx.scenario.variables["x"] = StringVariable
  /\ ld.result.ctx.scenario.variables["y"].type = "string"
  /\ ld.result.ctx.scenario.secretVariables = <<"x">>


----------------------------------------------------------------------------
\* load: the raw definition is read as the loader gets to it, one step or scenario
\* per action.

MaxLoadSteps == 3   \* steps of one raw definition, over all its lists
MaxScenarios == 1   \* rawDef.scenarios.length is in 0..MaxScenarios

\* opts.swaggerFilePaths: operation Op_A with the path parameter x.
LoadSwaggers ==
  <<SwaggerSpec("v1", "Op_A",
                <<ApiVersionParameter, [name |-> "x", in |-> "path", required |-> TRUE]>>,
                <<>>)>>

ValueLessString ==
  [js |-> "object", type |-> "string", value |-> Undefined, prefix |-> Undefined,
   patches |-> Undefined]

\* Raw steps named "s": a template step with parameter x, an operation step and a
\* script step.
LoadSteps ==
  {[NoRawStep EXCEPT !.keys = {"armTemplate"}, !.step = "s", !.armTemplate = "template.json",
                     !.template.parameters =
                       <<[name |-> "x", type |-> "string", defaultValue |-> Undefined]>>],
   [NoRawStep EXCEPT !.keys = {"operationId"}, !.step = "s", !.operationId = "Op_A"],
   [NoRawStep EXCEPT !.keys = {"armDeploymentScript"}, !.step = "s",
                     !.armDeploymentScript = "script.sh"]}

RawScenarios ==
  [scenario : {Undefined}, shareScope : {Undefined},
   variables : {<<>>, <<ValueLessString>>, <<[ValueLessString EXCEPT !.prefix = "p"]>>}]

LoadInit ==
  /\ RunnerIdle
  /\ ld = [pc |-> "constructed", fn |-> "load", loader |-> NewLoader, ctx |-> EmptyCtx,
           error |-> "", rawScope |-> Undefined, rawStep |-> NoRawStep, rawScenarios |-> <<>>,
           compiled |-> 0]

\* load, lines 519-547, and loadPrepareSteps up to its loop, lines 566-567.
load ==
  /\ ld.pc = "constructed"
  /\ \E rawScope \in {Undefined, "ResourceGroup", "Subscription", "None"},
        rawVariables \in {<<>>, <<ValueLessString>>} :
       LET loader == initialize(ld.loader, LoadSwaggers, <<>>)
           r == newScenarioDef(rawScope, rawVariables)
       IN  ld' = IF loader.error # "" \/ r.error # ""
                 THEN [ld EXCEPT !.pc = "failed", !.loader = loader, !.rawScope = rawScope,
                                 !.error = IF loader.error # "" THEN loader.error ELSE r.error]
                 ELSE [ld EXCEPT !.pc = "prepare", !.loader = loader, !.rawScope = rawScope,
                                 !.ctx = [EmptyCtx EXCEPT !.scenarioDef = r.def,
                                                          !.stage = "prepare"]]
  /\ UNCHANGED runnerVars

\* loadCleanUpSteps up to its loop, lines 576-577.
loadCleanUpSteps ==
  /\ ld.pc = "prepare"
  /\ ld' = [ld EXCEPT !.pc = "cleanUp", !.ctx.stage = "cleanUp", !.ctx.stepIndex = 0]
  /\ UNCHANGED runnerVars

\* Line 552 before the first scenario, then lines 554-555 and loadScenario up to
\* its loop, lines 586-605.
loadScenario ==
  /\ ld.pc \in {"cleanUp", "scenarios"}
  /\ Len(ld.ctx.scenarioDef.scenarios) < MaxScenarios
  /\ \E rawScenario \in RawScenarios :
       LET r == newScenario(rawScenario,
                            [ld.ctx EXCEPT !.stepTracking = {},
                                           !.scenarioIndex = IF ld.pc = "cleanUp" THEN 0 ELSE @])
       IN  ld' = IF r.error # ""
                 THEN [ld EXCEPT !.pc = "failed", !.error = r.error,
                                 !.rawScenarios = Append(@, rawScenario)]
                 ELSE [ld EXCEPT !.pc = "scenario", !.ctx = r.ctx,
                                 !.rawScenarios = Append(@, rawScenario)]
  /\ UNCHANGED runnerVars

\* A loop that skips a step loadStep threw for and goes on with the next.
stepPushedSkipFailed(rawStep, r) ==
  [ld EXCEPT
     !.rawStep = rawStep, !.compiled = @ + 1,
     !.ctx = IF r.error # ""
             THEN r.ctx
             ELSE IF ld.pc = "prepare"
                  THEN [r.ctx EXCEPT !.scenarioDef.prepareSteps =
                          Append(@, [r.step EXCEPT !.isPrepareStep = TRUE])]
                  ELSE IF ld.pc = "cleanUp"
                       THEN [r.ctx EXCEPT !.scenarioDef.cleanUpSteps =
                               Append(@, [r.step EXCEPT !.isCleanUpStep = TRUE])]
                       ELSE [r.ctx EXCEPT !.scenario.steps = Append(@, r.step)]]

\* The loader after loadStep has returned r for rawStep, or thrown, in the loop of
\* loadPrepareSteps (lines 569-571), loadCleanUpSteps (579-581) or loadScenario
\* (608-609).
stepPushed(rawStep, r) ==
  IF r.error # ""
  THEN [ld EXCEPT !.pc = "failed", !.error = r.error, !.ctx = r.ctx, !.rawStep = rawStep]
  ELSE [ld EXCEPT
          !.rawStep = rawStep, !.compiled = @ + 1,
          !.ctx = IF ld.pc = "prepare"
                  THEN [r.ctx EXCEPT !.scenarioDef.prepareSteps =
                          Append(@, [r.step EXCEPT !.isPrepareStep = TRUE])]
                  ELSE IF ld.pc = "cleanUp"
                       THEN [r.ctx EXCEPT !.scenarioDef.cleanUpSteps =
                               Append(@, [r.step EXCEPT !.isCleanUpStep = TRUE])]
                       ELSE [r.ctx EXCEPT !.scenario.steps = Append(@, r.step)]]

\* One turn of the loop of loadPrepareSteps (lines 568-572), of loadCleanUpSteps
\* (lines 578-582) or of loadScenario (lines 607-610), whichever the loader is in.
loadStepTurn ==
  /\ ld.pc \in {"prepare", "cleanUp", "scenario"}
  /\ ld.compiled < MaxLoadSteps
  /\ \E rawStep \in LoadSteps :
       ld' = stepPushed(rawStep, loadStep(ld.loader, rawStep, ld.ctx))
  /\ UNCHANGED runnerVars

\* The return of loadScenario, line 612, and lines 556-557.
loadScenarioReturns ==
  /\ ld.pc = "scenario"
  /\ ld' = [ld EXCEPT !.pc = "scenarios",
                      !.ctx.scenarioDef.scenarios = Append(@, ld.ctx.scenario),
                      !.ctx.scenarioIndex = @ + 1]
  /\ UNCHANGED runnerVars

\* The return of load, line 562, after line 552 when there was no scenario.
loadReturns ==
  /\ ld.pc \in {"cleanUp", "scenarios"}
  /\ ld' = [ld EXCEPT !.pc = "returned",
                      !.ctx.scenarioIndex = IF ld.pc = "cleanUp" THEN 0 ELSE @]
  /\ UNCHANGED runnerVars

LoadNext ==
  \/ load
  \/ loadCleanUpSteps
  \/ loadScenario
  \/ loadStepTurn
  \/ loadScenarioReturns
  \/ loadReturns

LoadSpec == LoadInit /\ [][LoadNext]_vars


\* C11: compiling a scenario step whose explicit name an earlier step of the
\* scenario carries, whatever the kinds of the two steps, aborts the load with the
\* duplicate-step-name error.
C11_DuplicateStepName ==
  [][(/\ ld.pc = "scenario"
      /\ ld'.pc \in {"scenario", "failed"}
      /\ \E i \in 1..Len(ld.ctx.scenario.steps) :
           ld.ctx.scenario.steps[i].step = ld'.rawStep.step)
       => (ld'.pc = "failed" /\ ld'.error = "Failed to load step: Duplicated step name")]_vars

Occurrences(list, name) == Cardinality({i \in 1..Len(list) : list[i] = name})

\* The scopes of the definition of ld: the definition and its scenarios.
LoadedScopes ==
  {ld.ctx.scenarioDef}
    \cup {ld.ctx.scenarioDef.scenarios[i] : i \in 1..Len(ld.ctx.scenarioDef.scenarios)}

\* The steps compiled into a scope of LoadedScopes.
ScopeSteps(scope) ==
  IF scope = ld.ctx.scenarioDef THEN scope.prepareSteps \o scope.cleanUpSteps ELSE scope.steps

\* C12: when load() has returned, the parameter x of the template steps, which has
\* no default value, is listed exactly once in requiredVariables of the scope that
\* owns the steps when no variable x is in scope, however many template steps of
\* the scope declare it.
C12_RequiredOnce ==
  ld.pc = "returned" =>
    \A scope \in LoadedScopes :
      (/\ \E i \in 1..Len(ScopeSteps(scope)) : ScopeSteps(scope)[i].armTemplate = "template.json"
       /\ scope.variables["x"] = NoVariable
       /\ ld.ctx.scenarioDef.variables["x"] = NoVariable)
        => Occurrences(scope.requiredVariables, "x") = 1

\* C13: the definition of a raw definition of scope kind ResourceGroup, or of none,
\* has scope kind ResourceGroup and lists subscriptionId and location in
\* requiredVariables; one of scope kind Subscription lists subscriptionId.
C13_ScopeRequiredVariables ==
  ld.pc \notin {"constructed", "failed"} =>
    LET scenarioDef == ld.ctx.scenarioDef
    IN  /\ scenarioDef.scope = IF ld.rawScope = Undefined THEN "ResourceGroup" ELSE ld.rawScope
        /\ scenarioDef.scope = "ResourceGroup" =>
             /\ Includes(scenarioDef.requiredVariables, "subscriptionId")
             /\ Includes(scenarioDef.requiredVariables, "location")
        /\ scenarioDef.scope = "Subscription" => Includes(scenarioDef.requiredVariables, "subscriptionId")

\* A returned definition whose raw definition names no scope kind and declares no
\* variable, and whose steps added to the list.
C13_Witness ==
  /\ ld.pc = "returned"
  /\ ld.rawScope = Undefined
  /\ \A k \in VarNames : ld.ctx.scenarioDef.variables[k] = NoVariable
  /\ ld.ctx.scenarioDef.requiredVariables = <<"subscriptionId", "location", "x">>

\* The names a raw scenario declares as string or secureString without a value,
\* and, unless anyPrefix, without a prefix.
ValueLessDeclarations(rawScenario, anyPrefix) ==
  {VarKeys[i] : i \in {i \in 1..Len(rawScenario.variables) :
                        /\ rawScenario.variables[i].js = "object"
                        /\ rawScenario.variables[i].type \in StringTypes
                        /\ rawScenario.variables[i].value = Undefined
                        /\ anyPrefix \/ rawScenario.variables[i].prefix = Undefined}}

ListedNames(list) == {list[i] : i \in 1..Len(list)}

\* Every scenario lists the names the definition lists and its own declarations.
RequiredSupersets(anyPrefix) ==
  \A i \in 1..Len(ld.ctx.scenarioDef.scenarios) :
    /\ ListedNames(ld.ctx.scenarioDef.requiredVariables)
         \subseteq ListedNames(ld.ctx.scenarioDef.scenarios[i].requiredVariables)
    /\ ValueLessDeclarations(ld.rawScenarios[i], anyPrefix)
         \subseteq ListedNames(ld.ctx.scenarioDef.scenarios[i].requiredVariables)

\* No requiredVariables list loses a name in a step of the loader.
RequiredKept ==
  /\ ListedNames(ld.ctx.scenarioDef.requiredVariables)
       \subseteq ListedNames(ld'.ctx.scenarioDef.requiredVariables)
  /\ \A i \in 1..Len(ld.ctx.scenarioDef.scenarios) :
       ListedNames(ld.ctx.scenarioDef.scenarios[i].requiredVariables)
         \subseteq ListedNames(ld'.ctx.scenarioDef.scenarios[i].requiredVariables)
  /\ (ld.ctx.scenario.defined /\ ld'.rawScenarios = ld.rawScenarios)
       => ListedNames(ld.ctx.scenario.requiredVariables)
            \subseteq ListedNames(ld'.ctx.scenario.requiredVariables)

\* C14 as stated: when load() returns, every scenario's requiredVariables holds the
\* names of the definition's requiredVariables and the scenario's own value-less
\* string declarations, and no step of the compilation removes a name from a
\* requiredVariables list.
C14_RequiredSupersetsAnyPrefix ==
  [][RequiredKept /\ (ld'.pc = "returned" => RequiredSupersets(TRUE)')]_vars

\* C14: when load() returns, every scenario's requiredVariables holds the names of
\* the definition's requiredVariables, those the prepare and cleanup steps added
\* included, and the scenario's own string and secureString declarations that have
\* neither a value nor a prefix; no step of the compilation removes a name from a
\* requiredVariables list.
C14_RequiredSupersets ==
  [][RequiredKept /\ (ld'.pc = "returned" => RequiredSupersets(FALSE)')]_vars

\* A returned definition whose prepare step added x to the definition's list and
\* whose scenario declares x with a prefix and no value.
C14_Witness ==
  /\ ld.pc = "returned"
  /\ Len(ld.ctx.scenarioDef.prepareSteps) = 1
  /\ Len(ld.ctx.scenarioDef.scenarios) = 1
  /\ ld.ctx.scenarioDef.requiredVariables = <<"subscriptionId", "location", "x">>
  /\ ld.rawScenarios[1].variables = <<[ValueLessString EXCEPT !.prefix = "p"]>>
  /\ ld.ctx.scenarioDef.scenarios[1].requiredVariables = <<"subscriptionId", "location", "x">>

\* C23: load() returns no definition for a raw definition whose scope kind is None:
\* it aborts.
C23_NoneRejected ==
  ld.rawScope = "None" => ld.pc \in {"constructed", "failed"}

\* The messages loadStep wraps (lines 626, 657, 729, 1057).
StepErrorMessages ==
  {"Invalid step", "Duplicated step name", "Operation not found",
   "Only string and secureString type is supported"}

\* A step of the loader that is one turn of a step loop: the loader stays in its
\* loop or fails, and has read no further scenario.
StepTurn ==
  /\ ld.pc \in {"prepare", "cleanUp", "scenario"}
  /\ ld'.pc \in {ld.pc, "failed"}
  /\ ld'.rawScenarios = ld.rawScenarios
  /\ ld' # ld

\* The turn in which loadStep gave r: when r is an error, the load has failed with
\* it, the error is the wrapped one that names the raw step, and no list of the
\* definition has grown.
RejectsWith(r) ==
  r.error # "" =>
    /\ ld'.pc = "failed"
    /\ ld'.error = r.error
    /\ \E msg \in StepErrorMessages : ld'.error = "Failed to load step: " \o msg
    /\ ld'.compiled = ld.compiled
    /\ ld'.ctx.scenarioDef.prepareSteps = ld.ctx.scenarioDef.prepareSteps
    /\ ld'.ctx.scenarioDef.cleanUpSteps = ld.ctx.scenarioDef.cleanUpSteps
    /\ ld'.ctx.scenarioDef.scenarios = ld.ctx.scenarioDef.scenarios

DistinctNames(steps) ==
  \A i, j \in 1..Len(steps) : steps[i].step = steps[j].step => i = j

\* C26: in a definition load() has returned, the names of the steps are pairwise
\* distinct within the prepare list, within the cleanup list and within the step
\* list of each scenario.
C26_DistinctStepNames ==
  ld.pc = "returned" =>
    /\ DistinctNames(ld.ctx.scenarioDef.prepareSteps)
    /\ DistinctNames(ld.ctx.scenarioDef.cleanUpSteps)
    /\ \A k \in 1..Len(ld.ctx.scenarioDef.scenarios) :
         DistinctNames(ld.ctx.scenarioDef.scenarios[k].steps)

----------------------------------------------------------------------------
\* Part III: executeStep in detail.  ex holds one compiled step, the environment
\* it is executed in, and what the client was last sent.  A value of the request or
\* of the template payload is a string; a placeholder is the whole string.

MaxParams == 2      \* parameters of the step's operation
MaxDispatch == 2    \* executions of the step
MaxPasses == 2      \* generateValueFromPrefix passes over one environment

\* The variables of an environment, in the order getVariables lists them.
EnvKeys == <<"subscriptionId", "resourceGroupName", "x">>

\* Environments: subscriptionId is set, resourceGroupName is the default of lines
\* 133-138, x has a value or a prefix only.
ExecEnvs ==
  {[k \in VarNames |->
      IF k = "subscriptionId" THEN [StringVariable EXCEPT !.value = "sub"]
      ELSE IF k = "resourceGroupName" THEN [NoVariable EXCEPT !.type = "string", !.prefix = "apiTest-"]
      ELSE IF k = "x" THEN x ELSE NoVariable] :
     x \in {[StringVariable EXCEPT !.value = "v1"],
            [StringVariable EXCEPT !.value = "v2"],
            [NoVariable EXCEPT !.type = "secureString", !.prefix = "p"]}}

RECURSIVE generatePrefixValuesAlways(_, _, _)
\* The loop without the test of v.value: a value is generated for every string
\* variable that has a prefix.
generatePrefixValuesAlways(env, i, rand) ==
  IF i > Len(EnvKeys)
  THEN [env |-> env, rand |-> rand]
  ELSE LET v == env[EnvKeys[i]]
       IN  IF v.type \in StringTypes /\ v.prefix # Undefined
           THEN generatePrefixValuesAlways(
                  [env EXCEPT ![EnvKeys[i]].value = v.prefix \o ToString(rand + 1)],
                  i + 1, rand + 1)
           ELSE generatePrefixValuesAlways(env, i + 1, rand)

RECURSIVE generatePrefixValues(_, _, _)
\* The loop of lines 160-166 from the i-th variable on; rand counts the strings
\* getRandomString has returned, and the string it returns next is ToString(rand + 1).
generatePrefixValues(env, i, rand) ==
  IF i > Len(EnvKeys)
  THEN [env |-> env, rand |-> rand]
  ELSE LET v == env[EnvKeys[i]]
       IN  IF v.type \in StringTypes /\ v.prefix # Undefined /\ v.value = Undefined
           THEN generatePrefixValues(
                  [env EXCEPT ![EnvKeys[i]].value = v.prefix \o ToString(rand + 1)],
                  i + 1, rand + 1)
           ELSE generatePrefixValues(env, i + 1, rand)

\* generateValueFromPrefix, lines 159-167.
generateValueFromPrefix(env, rand) == generatePrefixValues(env, 1, rand)

\* VariableEnv.resolveObjectValues on one value: a string that is a placeholder
\* becomes the value of the variable it names, undefined when the variable has none.
resolveValue(val, env) ==
  IF val.t = "string" /\ \E k \in VarNames : val.v = Placeholder(k)
  THEN JsString(env[CHOOSE k \in VarNames : val.v = Placeholder(k)].value)
  ELSE val

\* VariableEnv.resolveObjectValues on a map of values: a new map, and the error of a
\* placeholder that does not resolve.  The map given is not changed.
resolveObjectValues(obj, env) ==
  [value |-> [k \in DOMAIN obj |-> resolveValue(obj[k], env)],
   error |-> IF \E k \in DOMAIN obj : obj[k] # JsUndefined /\ resolveValue(obj[k], env) = JsUndefined
             THEN "Variable is not defined" ELSE ""]

EmptyBucket == [k \in ParamNames |-> JsUndefined]

\* What the client is sent: the request of lines 218-224 for a REST call, the
\* payload and the deployment name for a template deployment.
NoRequest ==
  [kind |-> "none", pathVariables |-> EmptyBucket, headers |-> EmptyBucket,
   query |-> EmptyBucket, body |-> JsUndefined, payload |-> EmptyBucket,
   deploymentName |-> Undefined]

\* The fields of a compiled step the runner reads (StepRestCall, StepArmTemplate);
\* operation stands for operation.parameters, and resolvedParameters is the empty
\* map while _resolvedParameters is unset.
NoExecStep ==
  [type |-> Undefined, operation |-> <<>>, parameters |-> EmptyBucket,
   resolvedParameters |-> <<>>, armTemplatePayload |-> EmptyBucket]

\* The loop with a parameter that has no value skipped, required or not.
RECURSIVE buildRequestSkipMissing(_, _, _)
buildRequestSkipMissing(step, i, b) ==
  IF i > Len(step.operation) \/ b.error # ""
  THEN b
  ELSE LET param == step.operation[i]
           paramVal == step.parameters[param.name]
       IN  IF paramVal = JsUndefined
           THEN buildRequestSkipMissing(step, i + 1, b)
           ELSE IF param.in = "path"
           THEN buildRequestSkipMissing(step, i + 1, [b EXCEPT !.req.pathVariables[param.name] = paramVal])
           ELSE IF param.in = "query"
           THEN buildRequestSkipMissing(step, i + 1, [b EXCEPT !.req.query[param.name] = paramVal])
           ELSE IF param.in = "header"
           THEN buildRequestSkipMissing(step, i + 1, [b EXCEPT !.req.headers[param.name] = paramVal])
           ELSE IF param.in = "body"
           THEN buildRequestSkipMissing(step, i + 1, [b EXCEPT !.req.body = paramVal])
           ELSE [b EXCEPT !.error = "Parameter \"in\" not supported"]

\* The loop of lines 226-254 from the i-th parameter of the operation on.
RECURSIVE buildRequest(_, _, _)
buildRequest(step, i, b) ==
  IF i > Len(step.operation) \/ b.error # ""
  THEN b
  ELSE LET param == step.operation[i]
           paramVal == step.parameters[param.name]
       IN  IF paramVal = JsUndefined
           THEN IF param.required
                THEN [b EXCEPT !.error = "Parameter value is not found in step"]
                ELSE buildRequest(step, i + 1, b)
           ELSE IF param.in = "path"
           THEN buildRequest(step, i + 1, [b EXCEPT !.req.pathVariables[param.name] = paramVal])
           ELSE IF param.in = "query"
           THEN buildRequest(step, i + 1, [b EXCEPT !.req.query[param.name] = paramVal])
           ELSE IF param.in = "header"
           THEN buildRequest(step, i + 1, [b EXCEPT !.req.headers[param.name] = paramVal])
           ELSE IF param.in = "body"
           THEN buildRequest(step, i + 1, [b EXCEPT !.req.body = paramVal])
           ELSE [b EXCEPT !.error = "Parameter \"in\" not supported"]

\* Lines 256-258: the request with every placeholder resolved.
resolveRequest(req, env) ==
  LET path == resolveObjectValues(req.pathVariables, env)
      headers == resolveObjectValues(req.headers, env)
      query == resolveObjectValues(req.query, env)
      body == resolveObjectValues(<<req.body>>, env)
  IN  [value |-> [req EXCEPT !.pathVariables = path.value, !.headers = headers.value,
                             !.query = query.value, !.body = body.value[1]],
       error |-> IF path.error # "" \/ headers.error # "" \/ query.error # "" \/ body.error # ""
                 THEN "Variable is not defined" ELSE ""]

\* Lines 256-264 for the request b the loop built, or the error it threw; ok is
\* whether the client fulfils the request.
restCallSent(step, env, resolveVariables, ok, b) ==
  IF b.error # ""
  THEN [step |-> step, error |-> b.error, sent |-> FALSE, request |-> NoRequest]
  ELSE LET r == IF resolveVariables THEN resolveRequest(b.req, env)
                ELSE [value |-> b.req, error |-> ""]
       IN  IF r.error # ""
           THEN [step |-> step, error |-> r.error, sent |-> FALSE, request |-> NoRequest]
           ELSE [step |-> IF ok /\ resolveVariables /\ step.resolvedParameters = <<>>
                          THEN [step EXCEPT !.resolvedParameters =
                                              resolveObjectValues(step.parameters, env).value]
                          ELSE step,
                 error |-> IF ok THEN "" ELSE "sendRestCallRequest",
                 sent |-> TRUE, request |-> r.value]

\* executeRestCallStep, lines 217-265.
executeRestCallStep(step, env, resolveVariables, ok) ==
  restCallSent(step, env, resolveVariables, ok,
               buildRequest(step, 1, [req |-> [NoRequest EXCEPT !.kind = "restCall"],
                                      error |-> ""]))

\* executeArmTemplateStep, lines 267-286; rand counts the strings getRandomString
\* has returned.  getRequiredString throws for a variable that has no value.
executeArmTemplateStep(step, env, resolveVariables, rand, ok) ==
  IF env["subscriptionId"].value = Undefined \/ env["resourceGroupName"].value = Undefined
  THEN [step |-> step, error |-> "Variable is not defined", sent |-> FALSE,
        request |-> NoRequest, rand |-> rand]
  ELSE LET r == IF resolveVariables THEN resolveObjectValues(step.armTemplatePayload, env)
                ELSE [value |-> step.armTemplatePayload, error |-> ""]
       IN  IF r.error # ""
           THEN [step |-> step, error |-> r.error, sent |-> FALSE, request |-> NoRequest,
                 rand |-> rand + 1]
           ELSE [step |-> [step EXCEPT !.armTemplatePayload = r.value],
                 error |-> IF ok THEN "" ELSE "sendArmTemplateDeployment",
                 sent |-> TRUE,
                 request |-> [NoRequest EXCEPT
                                !.kind = "armTemplateDeployment", !.payload = r.value,
                                !.deploymentName = env["resourceGroupName"].value \o "-deploy-"
                                                     \o ToString(rand + 1)],
                 rand |-> rand + 1]

\* Locations the operations of the inputs declare: one the switch of lines 238-253
\* handles, and one it does not.
ParamLocations == {"path", "formData"}

\* operation.parameters: the i-th parameter is named VarKeys[i].
OperationParameters ==
  UNION {{[i \in 1..n |-> [name |-> VarKeys[i], in |-> f[i].in, required |-> f[i].required]] :
            f \in [1..n -> [in : ParamLocations, required : BOOLEAN]]} : n \in 1..MaxParams}

\* Compiled REST steps: each parameter of the operation is bound or not; x is bound
\* to its placeholder, the other parameters to a literal.
RestCallSteps ==
  UNION {{[NoExecStep EXCEPT
             !.type = "restCall", !.operation = ps,
             !.parameters = [k \in ParamNames |->
                               IF k \notin bound THEN JsUndefined
                               ELSE IF k = "x" THEN JsString(Placeholder("x"))
                               ELSE JsString("lit")]] :
            bound \in SUBSET {ps[i].name : i \in 1..Len(ps)}} : ps \in OperationParameters}

\* Compiled template steps: the payload holds a literal or the placeholder of x.
TemplateSteps ==
  {[NoExecStep EXCEPT !.type = "armTemplateDeployment",
                      !.armTemplatePayload = [EmptyBucket EXCEPT !["x"] = JsString(s)]] :
     s \in {"a", Placeholder("x")}}

\* A runner (lines 101-108) that is handed a compiled step and an environment.
\* compiled keeps the step as the loader returned it.
ExecInit ==
  /\ def = [scope |-> "ResourceGroup", nPrepare |-> 0, nCleanUp |-> 0]
  /\ envOk = TRUE
  /\ skipCleanUp = FALSE
  /\ overlap = FALSE
  /\ scopeTracking = [n \in ScopeNames |-> 0]
  /\ scopes = <<>>
  /\ randCount = 0
  /\ call = [c \in Calls |-> IdleCall]
  /\ pending = {}
  /\ ld = NotLoaded
  /\ \E resolveVariables \in BOOLEAN, env \in ExecEnvs, step \in RestCallSteps \cup TemplateSteps :
       ex = [pc |-> "ready", resolveVariables |-> resolveVariables, env |-> env, envCount |-> 1,
             passes |-> 0, compiled |-> step, step |-> step, executions |-> 0,
             sentCount |-> 0, request |-> NoRequest, error |-> ""]

execFrame == <<def, envOk, skipCleanUp, overlap, scopeTracking, scopes, call, pending, ld>>

\* The environment of another scope, or of another execution of the scenario, is
\* built (lines 116-121, 171), after the step was executed in the one before it.
nextEnvironment(env) ==
  /\ ex.pc = "ready"
  /\ ex.envCount < MaxDispatch
  /\ ex.executions >= ex.envCount
  /\ ex' = [ex EXCEPT !.env = env, !.envCount = @ + 1, !.passes = 0]
  /\ UNCHANGED <<execFrame, randCount>>

\* generateValueFromPrefix is applied to the environment (lines 140, 173, 195).
generateValueFromPrefixReturns ==
  /\ ex.pc = "ready"
  /\ ex.passes < MaxPasses
  /\ ex' = [ex EXCEPT !.env = generateValueFromPrefix(ex.env, randCount).env,
                      !.passes = @ + 1]
  /\ randCount' = generateValueFromPrefix(ex.env, randCount).rand
  /\ UNCHANGED execFrame

\* The end of executeStep, lines 201-215, when the step's routine gave r.
stepExecuted(r, rand) ==
  /\ ex' = [ex EXCEPT !.step = r.step, !.executions = @ + 1,
                      !.sentCount = IF r.sent THEN @ + 1 ELSE @,
                      !.request = IF r.sent THEN r.request ELSE @,
                      !.error = IF r.error = "" THEN ""
                                ELSE "Failed to execute step: " \o r.error]
  /\ randCount' = rand

templateExecuted(r) == stepExecuted(r, r.rand)

\* executeStep, lines 192-215, on the step of ex in the environment of ex.  The step
\* declares no variable of its own, so lines 193-199 add nothing to the environment.
executeStep(ok) ==
  /\ ex.pc = "ready"
  /\ ex.executions < MaxDispatch
  /\ IF ex.step.type = "restCall"
     THEN stepExecuted(executeRestCallStep(ex.step, ex.env, ex.resolveVariables, ok), randCount)
     ELSE templateExecuted(executeArmTemplateStep(ex.step, ex.env, ex.resolveVariables,
                                                   randCount, ok))
  /\ UNCHANGED execFrame

ExecNext ==
  \/ \E env \in ExecEnvs : nextEnvironment(env)
  \/ generateValueFromPrefixReturns
  \/ \E ok \in BOOLEAN : executeStep(ok)

ExecSpec == ExecInit /\ [][ExecNext]_vars

\* A variable generateValueFromPrefix gives a value: a string or secureString with
\* a prefix and no value.
PrefixOnly(v) == v.type \in StringTypes /\ v.prefix # Undefined /\ v.value = Undefined

\* C24: a pass of generateValueFromPrefix gives every string or secureString
\* variable that has a prefix and no value the value prefix+suffix, with a suffix
\* getRandomString returned in the pass, and changes no other variable; a second
\* pass over the same environment changes nothing.
C24_PrefixIdempotent ==
  [][ex'.passes = ex.passes + 1 =>
       /\ \A k \in VarNames :
            IF PrefixOnly(ex.env[k])
            THEN \E n \in (randCount + 1)..randCount' :
                   ex'.env[k] = [ex.env[k] EXCEPT !.value = ex.env[k].prefix \o ToString(n)]
            ELSE ex'.env[k] = ex.env[k]
       /\ ex.passes >= 1 => (ex'.env = ex.env /\ randCount' = randCount)]_vars

\* Two passes over an environment in which resourceGroupName and x had a prefix and
\* no value: each got its value in the first pass.
C24_Witness ==
  /\ ex.pc = "ready"
  /\ ex.passes = 2
  /\ ex.env["resourceGroupName"].value = "apiTest-1"
  /\ ex.env["x"].value = "p2"
  /\ ex.env["subscriptionId"].value = "sub"

\* The locations the switch of lines 238-253 handles.
SupportedLocations == {"path", "query", "header", "body"}

\* The i-th parameter of the step's operation stops the loop of lines 226-254.
Offending(step, i) ==
  IF step.parameters[step.operation[i].name] = JsUndefined
  THEN step.operation[i].required
  ELSE step.operation[i].in \notin SupportedLocations

OffendingError(step, i) ==
  IF step.parameters[step.operation[i].name] = JsUndefined
  THEN "Failed to execute step: Parameter value is not found in step"
  ELSE "Failed to execute step: Parameter \"in\" not supported"

\* An execution of the REST step of ex.
RestCallExecuted == ex.step.type = "restCall" /\ ex'.executions = ex.executions + 1

\* C22 as stated: when a required parameter of the operation has no bound value the
\* step fails with the missing-parameter error and no request is sent, and when a
\* parameter has an unsupported location the step fails and no request is sent.
C22_FailsBeforeRequest ==
  [][RestCallExecuted =>
       /\ (\E i \in 1..Len(ex.step.operation) :
             /\ ex.step.operation[i].required
             /\ ex.step.parameters[ex.step.operation[i].name] = JsUndefined)
            => /\ ex'.error = "Failed to execute step: Parameter value is not found in step"
               /\ ex'.sentCount = ex.sentCount
       /\ (\E i \in 1..Len(ex.step.operation) :
             ex.step.operation[i].in \notin SupportedLocations)
            => /\ ex'.error # ""
               /\ ex'.sentCount = ex.sentCount]_vars

\* C22 (as amended): when a required parameter has no bound value, or a parameter
\* that has a bound value has an unsupported location, the step fails with the
\* error of the first such parameter in declaration order and no request is sent;
\* an optional parameter with no bound value is skipped whatever its location, so
\* a step with no such parameter is sent when its placeholders resolve.
C22_FailsAtFirstOffending ==
  [][RestCallExecuted =>
       LET offending == {i \in 1..Len(ex.step.operation) : Offending(ex.step, i)}
       IN  IF offending # {}
           THEN /\ ex'.sentCount = ex.sentCount
                /\ ex'.request = ex.request
                /\ ex'.step = ex.step
                /\ \E i \in offending :
                     /\ \A j \in offending : i <= j
                     /\ ex'.error = OffendingError(ex.step, i)
           ELSE (~ex.resolveVariables \/ ex.env["x"].value # Undefined)
                  => ex'.sentCount = ex.sentCount + 1]_vars

\* A REST step whose first parameter is bound and supported and whose second,
\* required parameter has no value was executed: it failed and nothing was sent.
C22_Witness ==
  /\ ex.pc = "ready"
  /\ ex.step.type = "restCall"
  /\ Len(ex.step.operation) = 2
  /\ ex.step.operation[1].in = "path" /\ ex.step.parameters["x"] # JsUndefined
  /\ ex.step.operation[2].required /\ ex.step.parameters["y"] = JsUndefined
  /\ ex.executions = 1
  /\ ex.sentCount = 0
  /\ ex.error = "Failed to execute step: Parameter value is not found in step"

\* C29: with resolution enabled, every dispatch of a template step sends the payload
\* of the compiled step with its placeholders resolved against the environment of
\* that execution, and leaves the payload of the compiled step as it was.
C29_DispatchResolvesCompiled ==
  [][(/\ ex.compiled.type = "armTemplateDeployment"
      /\ ex.resolveVariables
      /\ ex'.sentCount = ex.sentCount + 1)
       => /\ ex'.request.payload = resolveObjectValues(ex.compiled.armTemplatePayload, ex.env).value
          /\ ex'.step.armTemplatePayload = ex.compiled.armTemplatePayload]_vars

----------------------------------------------------------------------------
\* Part IV: applyPatches on a fixture-based step, with the response-body
\* projections it starts.  The callback of line 866 is an async function that
\* forEach calls and does not await: each call runs to the await of line 873, and
\* what resourceToResponse does after its own first suspension runs in a later turn.

\* The keys of step.responses; AtLeast400 holds those with statusCode >= "400" in
\* the order of strings (line 867).
StatusCodes == {"200", "201", "404"}

AtLeast400 == {"404"}

\* A fixture-based step as line 847 finds it.
PatchInit ==
  /\ RunnerIdle
  /\ \E requestUpdate \in BOOLEAN, responseUpdate \in BOOLEAN, method \in {"put", "patch", "get"},
        bodyParam \in BOOLEAN, responses \in [StatusCodes -> {"absent", "noBody", "body"}] :
       ld = [pc |-> "constructed", fn |-> "applyPatches",
             rawStep |-> [requestUpdate |-> requestUpdate, responseUpdate |-> responseUpdate],
             method |-> method, bodyParam |-> bodyParam, responses |-> responses,
             started |-> {}, pending |-> {}, responsePatched |-> FALSE,
             afterPatch |-> {}, afterReturn |-> {}, failed |-> {}]

\* The responses whose body line 873 hands to resourceToResponse.
projected ==
  IF ld.rawStep.requestUpdate /\ ld.method \in {"put", "patch"} /\ ld.bodyParam
  THEN {c \in StatusCodes : c \notin AtLeast400 /\ ld.responses[c] = "body"}
  ELSE {}

\* applyPatches, lines 854-884, to its return.  sync holds the projections that
\* resourceToResponse has finished by the time its call returns.
applyPatches(sync) ==
  /\ ld.pc = "constructed"
  /\ ld' = [ld EXCEPT !.pc = "patched", !.started = projected, !.pending = projected \ sync,
                      !.responsePatched = ld.rawStep.responseUpdate]
  /\ UNCHANGED runnerVars

\* The promise of a resourceToResponse call settles (line 873); nothing awaits the
\* callback's promise, so its rejection reaches no caller.
resourceToResponseSettled(statusCode, ok) ==
  /\ statusCode \in ld.pending
  /\ ld' = [ld EXCEPT !.pending = @ \ {statusCode},
                      !.afterPatch = IF ld.responsePatched THEN @ \cup {statusCode} ELSE @,
                      !.afterReturn = IF ld.pc = "returned" THEN @ \cup {statusCode} ELSE @,
                      !.failed = IF ok THEN @ ELSE @ \cup {statusCode}]
  /\ UNCHANGED runnerVars

\* Lines 849-851, and the rest of load() to its return (line 562).
loadResolves ==
  /\ ld.pc = "patched"
  /\ ld' = [ld EXCEPT !.pc = "returned"]
  /\ UNCHANGED runnerVars

PatchNext ==
  \/ \E sync \in SUBSET projected : applyPatches(sync)
  \/ \E statusCode \in StatusCodes, ok \in BOOLEAN : resourceToResponseSettled(statusCode, ok)
  \/ loadResolves

PatchSpec == PatchInit /\ [][PatchNext]_vars

\* C30: when load() has resolved, every projection applyPatches started has
\* completed; no projection completes after the response-side patch was applied or
\* after load() returned; and a load in which a projection failed is rejected.
C30_ProjectionsAwaited ==
  /\ ld.pc = "returned" => ld.pending = {}
  /\ ld.afterPatch = {}
  /\ ld.afterReturn = {}
  /\ ld.failed # {} => ld.pc = "failed"

----------------------------------------------------------------------------
\* C31: once a load() on a loader instance has completed initialization, a later
\* load() on the instance fails with the already-initialized error, compiles no
\* step, and leaves the operation, version and fixture indexes as they were.
C31_InitializedOnce ==
  [][(ld.fn = "loadStep" /\ ld.pc = "constructed" /\ ld.loader.initialized /\ ld' # ld) =>
       /\ ld'.pc = "failed"
       /\ ld'.loader.error = "Already initialized"
       /\ ld'.loader.main = ld.loader.main
       /\ ld'.loader.exampleToOperation = ld.loader.exampleToOperation
       /\ ld'.loader.additionalMap = ld.loader.additionalMap
       /\ ld'.loader.initialized
       /\ ld'.result = [step |-> NoStep, ctx |-> EmptyCtx, error |-> ""]]_vars

\* A second load() on a loader whose first load() built the indexes and compiled a
\* step has failed.
C31_Witness ==
  /\ ld.fn = "loadStep"
  /\ ld.loads = 2
  /\ ld.pc = "failed"
  /\ ld.loader.initialized
  /\ ld.loader.error = "Already initialized"
  /\ \E o \in OperationIds : ld.loader.main.operationsMap[o].defined
  /\ ld.result.step = NoStep

====
